---------------------------- MODULE Spec2Model ----------------------------
(***************************************************************************)
(* A model of the EnsoAI settings engine (renderer/stores/settings): the   *)
(* sanitizers and the load-time migration of migration.ts, the storage     *)
(* adapter of storage.ts and the persisted store of index.ts.              *)
(*                                                                         *)
(* JSON values are tagged records, so that values of different JavaScript  *)
(* types can be compared: [num |-> n], [str |-> s], [bool |-> b],          *)
(* [null |-> TRUE], [undef |-> TRUE], [arr |-> seq] and [obj |-> f] with f *)
(* a function from property names to values.  A property that is absent    *)
(* from an object is absent from DOMAIN f.                                 *)
(*                                                                         *)
(* Numbers are fixed-point hundredths: the JSON number x is Num(100 * x),  *)
(* so that the default backgroundOpacity 0.85 is Num(85).                  *)
(***************************************************************************)
EXTENDS Integers, Sequences, FiniteSets, TLC

VARIABLES
    persistedState,  \* migrateSettings: the input P, Undefined or an object
    merged,          \* migrateSettings(P, D), once computed
    remerged,        \* migrateSettings(migrateSettings(P, D), D), once computed
    mpc,             \* "start" | "merged" | "remerged"
    state,           \* the store's in-memory state (useSettingsStore.getState())
    hpc,             \* hydration: "read" | "reply" | "ready"
    hdata,           \* the settings file as read for the hydration
    disk,            \* the settings file: Null or an object of top-level keys
    cycles,          \* the read-modify-write cycles in flight, oldest first
    held,            \* history: every state the store has held so far
    lastWrite,       \* history: the cycle whose write completed last
    clampCall,       \* a call of clampNumber: its arguments, then its result
    hostCalls,       \* the window.electronAPI calls in flight, oldest first
    hostEvent,       \* the outcome of the host call that settled last
    todo,            \* the localStorage migration of the todo store
    tdb,             \* the task database of the main process and its calls
    tstore,          \* the todo store of the renderer and its calls
    kanban,          \* the kanban board: its drag state and what it issued
    opener,          \* the open-path requests of the main process
    term             \* the terminal store and the calls of useTerminal

mvars == <<persistedState, merged, remerged, mpc>>

svars == <<state, hpc, hdata, disk, cycles, held, lastWrite>>

\* The variables of the functions that are examined on their own
xvars == <<tdb, tstore, kanban, opener, term>>
ovars == <<clampCall, todo, xvars>>
hvars == <<hostCalls, hostEvent>>

vars == <<persistedState, merged, remerged, mpc,
          state, hpc, hdata, disk, cycles, held, lastWrite, clampCall,
          hostCalls, hostEvent, todo, tdb, tstore, kanban, opener, term>>

\* No function is being examined on its own
NoHostEvent == [api |-> "none", from |-> "none", outcome |-> "none",
                reaches |-> "none"]

ClampIdle == clampCall = [pc |-> "idle"]

HostIdle == hostCalls = <<>> /\ hostEvent = NoHostEvent

TodoIdle == todo = [pc |-> "idle"]

TdbIdle == tdb = [pc |-> "idle"]

TstoreIdle == tstore = [pc |-> "idle"]

KanbanIdle == kanban = [pc |-> "idle"]

OpenerIdle == opener = [pc |-> "idle"]

TermIdle == term = [pc |-> "idle"]

OthersIdle ==
    /\ ClampIdle /\ HostIdle /\ TodoIdle
    /\ TdbIdle /\ TstoreIdle /\ KanbanIdle /\ OpenerIdle /\ TermIdle

----------------------------------------------------------------------------
(* JSON values                                                             *)

Num(n) == [num |-> n]
Str(s) == [str |-> s]
Bool(b) == [bool |-> b]
Null == [null |-> TRUE]
Undefined == [undef |-> TRUE]
Obj(f) == [obj |-> f]
\* An object whose property order matters to the code (Object.entries): keys
\* lists its properties in insertion order
OrderedObj(f, keys) == [obj |-> f, keys |-> keys]
Arr(s) == [arr |-> s]

\* x as a fixed-point number of hundredths
Fixed(x) == 100 * x

IsNum(v) == DOMAIN v = {"num"}
IsStr(v) == DOMAIN v = {"str"}
IsBool(v) == DOMAIN v = {"bool"}
IsNull(v) == DOMAIN v = {"null"}
IsUndefined(v) == DOMAIN v = {"undef"}
IsObj(v) == "obj" \in DOMAIN v
IsArr(v) == DOMAIN v = {"arr"}

\* The empty object {}
EmptyObj == [k \in {} |-> Null]

\* JavaScript truthiness: !!v
Truthy(v) ==
    IF IsBool(v) THEN v.bool
    ELSE IF IsNum(v) THEN v.num # 0
    ELSE IF IsStr(v) THEN v.str # ""
    ELSE IF IsNull(v) \/ IsUndefined(v) THEN FALSE
    ELSE TRUE

\* a ?? b
Coalesce(a, b) == IF IsNull(a) \/ IsUndefined(a) THEN b ELSE a

\* o.k for a property map o
Get(o, k) == IF k \in DOMAIN o THEN o[k] ELSE Undefined

\* v?.k : undefined for null and undefined, the property for an object, and
\* undefined for a number or a boolean (which have no own properties)
Prop(v, k) == IF IsObj(v) THEN Get(v.obj, k) ELSE Undefined

\* The own enumerable properties that {...v} copies: those of an object, none
\* for null, undefined, a number or a boolean
Spread(v) == IF IsObj(v) THEN v.obj ELSE EmptyObj

\* {...a, ...b} for property maps a and b
Merge(a, b) ==
    [k \in DOMAIN a \cup DOMAIN b |-> IF k \in DOMAIN b THEN b[k] ELSE a[k]]

\* {...a, [k]: v}
With(a, k, v) == [j \in DOMAIN a \cup {k} |-> IF j = k THEN v ELSE a[j]]

\* a after delete a[k]
Without(a, k) == [j \in DOMAIN a \ {k} |-> a[j]]

\* Object.fromEntries(Object.entries(o).filter(([, v]) => v !== undefined))
filterDefined(o) == [k \in {j \in DOMAIN o : ~IsUndefined(o[j])} |-> o[k]]

Min2(a, b) == IF a < b THEN a ELSE b
Max2(a, b) == IF a > b THEN a ELSE b


----------------------------------------------------------------------------
(* Sanitizers (migration.ts)                                               *)

NaN == [nan |-> TRUE]

\* Infinity and -Infinity
PosInfinity == [inf |-> 1]

NegInfinity == [inf |-> 0 - 1]

\* Number(s) for the strings of the model: the empty string and a string of
\* white space convert to 0, a decimal literal to its value, "Infinity" to
\* Infinity, any other text to NaN
NumberOfString(s) ==
    CASE s = "" -> Num(0)
      [] s = " " -> Num(0)
      [] s = "0.5" -> Num(50)
      [] s = "7" -> Num(Fixed(7))
      [] s = "600" -> Num(Fixed(600))
      [] s = "Infinity" -> PosInfinity
      [] OTHER -> NaN

\* Math.min(max, Math.max(min, n))
Clamp(n, min, max) == Min2(max, Max2(min, n))

\* The mutant of clampNumber that gives the fallback for a number outside
\* the range
clampNumberInRangeOnly(value, min, max, fallback) ==
    IF IsNum(value) /\ value.num >= min /\ value.num <= max THEN value
    ELSE IF IsStr(value) /\ IsNum(NumberOfString(value.str))
         THEN Num(Clamp(NumberOfString(value.str).num, min, max))
    ELSE fallback

clampNumber(value, min, max, fallback) ==
    IF IsNum(value) THEN Num(Clamp(value.num, min, max))
    ELSE IF IsStr(value) /\ IsNum(NumberOfString(value.str))
         THEN Num(Clamp(NumberOfString(value.str).num, min, max))
    ELSE fallback

sanitizeBoolean(value, fallback) == IF IsBool(value) THEN value ELSE fallback

sanitizeString(value, fallback) == IF IsStr(value) THEN value ELSE fallback

\* The calls of clampNumber that are examined: every kind of value, with the
\* bounds and the fallback of each of the five calls of migrateSettings
ClampValues ==
    {Num(0 - Fixed(1)), Num(0), Num(50), Num(Fixed(1)), Num(Fixed(3)),
     Num(Fixed(25)), Num(Fixed(100000)), NaN, PosInfinity, NegInfinity,
     Null, Undefined, Bool(TRUE), Bool(FALSE), Obj(EmptyObj), Arr(<<>>),
     Str(""), Str(" "), Str("0.5"), Str("7"), Str("600"), Str("abc"),
     Str("Infinity")}

ClampRanges ==
    {[min |-> 0, max |-> Fixed(1), fallback |-> Num(85)],
     [min |-> 0, max |-> Fixed(20), fallback |-> Num(0)],
     [min |-> 0, max |-> Fixed(2), fallback |-> Num(Fixed(1))],
     [min |-> Fixed(5), max |-> Fixed(86400), fallback |-> Num(Fixed(300))]}


----------------------------------------------------------------------------
(* Default table (defaults.ts, getInitialState of index.ts).  A domain      *)
(* record is modelled by the fields listed here; the prompts are modelled   *)
(* by their names.                                                          *)

Keybinding(key, mods) == Obj(Merge([key |-> Str(key)], [m \in mods |-> Bool(TRUE)]))

defaultStatusLineFieldSettings ==
    Obj([model |-> Bool(TRUE), context |-> Bool(TRUE), cost |-> Bool(TRUE),
         duration |-> Bool(FALSE)])

defaultClaudeCodeIntegrationSettings ==
    Obj([enabled |-> Bool(TRUE),
         selectionChangedDebounce |-> Num(Fixed(300)),
         stopHookEnabled |-> Bool(TRUE),
         statusLineEnabled |-> Bool(FALSE),
         statusLineFields |-> defaultStatusLineFieldSettings,
         providers |-> Arr(<<>>),
         enhancedInputEnabled |-> Bool(FALSE),
         enhancedInputAutoPopup |-> Str("hideWhileRunning")])

defaultCommitMessageGeneratorSettings ==
    Obj([enabled |-> Bool(TRUE), maxDiffLines |-> Num(Fixed(1000)),
         timeout |-> Num(Fixed(120)), provider |-> Str("claude-code"),
         model |-> Str("haiku"), prompt |-> Str("defaultCommitPromptZh")])

defaultBranchNameGeneratorSettings ==
    Obj([enabled |-> Bool(FALSE), provider |-> Str("claude-code"),
         model |-> Str("haiku"), prompt |-> Str("defaultBranchNamePrompt")])

defaultCodeReviewSettings ==
    Obj([enabled |-> Bool(TRUE), provider |-> Str("claude-code"),
         model |-> Str("haiku"), language |-> Str("zh"),
         prompt |-> Str("defaultCodeReviewPromptZh")])

defaultHapiSettings ==
    Obj([enabled |-> Bool(FALSE), webappPort |-> Num(Fixed(3006)),
         cliApiToken |-> Str(""), tunnelMode |-> Str("quick"),
         useHttp2 |-> Bool(TRUE)])

defaultProxySettings ==
    Obj([enabled |-> Bool(FALSE), server |-> Str(""),
         bypassList |-> Str("localhost,127.0.0.1")])

defaultEditorSettings ==
    Obj([minimapEnabled |-> Bool(FALSE), lineNumbers |-> Str("on"),
         fontSize |-> Num(Fixed(13)), tabSize |-> Num(Fixed(2)),
         autoSave |-> Str("off"), autoSaveDelay |-> Num(Fixed(1000))])

defaultXtermKeybindings ==
    Obj([newTab |-> Keybinding("t", {"meta"}),
         closeTab |-> Keybinding("w", {"meta"}),
         nextTab |-> Keybinding("]", {"meta"}),
         prevTab |-> Keybinding("[", {"meta"}),
         split |-> Keybinding("d", {"meta"}),
         merge |-> Keybinding("d", {"meta", "shift"}),
         clear |-> Keybinding("r", {"meta"})])

defaultMainTabKeybindings ==
    Obj([switchToAgent |-> Keybinding("1", {"ctrl"}),
         switchToFile |-> Keybinding("2", {"ctrl"}),
         switchToTerminal |-> Keybinding("3", {"ctrl"}),
         switchToSourceControl |-> Keybinding("4", {"ctrl"})])

defaultSourceControlKeybindings ==
    Obj([prevDiff |-> Keybinding("F7", {}), nextDiff |-> Keybinding("F8", {})])

defaultSearchKeybindings ==
    Obj([searchFiles |-> Keybinding("p", {"meta"}),
         searchContent |-> Keybinding("f", {"meta", "shift"})])

defaultGlobalKeybindings ==
    Obj([runningProjects |-> Keybinding("l", {"meta"})])

defaultWorkspaceKeybindings ==
    Obj([toggleWorktree |-> Keybinding("w", {"meta", "shift"}),
         toggleRepository |-> Keybinding("r", {"meta", "shift"}),
         switchActiveWorktree |-> Keybinding("CapsLock", {"ctrl"})])

AgentConfig(enabled, isDefault) ==
    Obj([enabled |-> Bool(enabled), isDefault |-> Bool(isDefault)])

defaultAgentSettings ==
    OrderedObj([claude |-> AgentConfig(TRUE, TRUE),
                codex |-> AgentConfig(FALSE, FALSE),
                droid |-> AgentConfig(FALSE, FALSE),
                gemini |-> AgentConfig(FALSE, FALSE),
                auggie |-> AgentConfig(FALSE, FALSE),
                cursor |-> AgentConfig(FALSE, FALSE),
                opencode |-> AgentConfig(FALSE, FALSE)],
               <<"claude", "codex", "droid", "gemini", "auggie", "cursor",
                 "opencode">>)

defaultQuickTerminalSettings ==
    Obj([enabled |-> Bool(TRUE), buttonPosition |-> Null,
         modalPosition |-> Null, modalSize |-> Null, isOpen |-> Bool(FALSE)])

\* getDefaultShellConfig() on a platform other than win32
getDefaultShellConfig == Obj([shellType |-> Str("system")])

\* getInitialState(): the store's state after construction
getInitialState ==
    [theme |-> Str("system"),
     language |-> Str("en"),
     fontSize |-> Num(Fixed(14)),
     terminalRenderer |-> Str("dom"),
     xtermKeybindings |-> defaultXtermKeybindings,
     mainTabKeybindings |-> defaultMainTabKeybindings,
     sourceControlKeybindings |-> defaultSourceControlKeybindings,
     searchKeybindings |-> defaultSearchKeybindings,
     globalKeybindings |-> defaultGlobalKeybindings,
     workspaceKeybindings |-> defaultWorkspaceKeybindings,
     editorSettings |-> defaultEditorSettings,
     agentSettings |-> defaultAgentSettings,
     agentDetectionStatus |-> Obj(EmptyObj),
     customAgents |-> Arr(<<>>),
     shellConfig |-> getDefaultShellConfig,
     claudeCodeIntegration |-> defaultClaudeCodeIntegrationSettings,
     commitMessageGenerator |-> defaultCommitMessageGeneratorSettings,
     codeReview |-> defaultCodeReviewSettings,
     branchNameGenerator |-> defaultBranchNameGeneratorSettings,
     autoUpdateEnabled |-> Bool(TRUE),
     hapiSettings |-> defaultHapiSettings,
     defaultWorktreePath |-> Str(""),
     proxySettings |-> defaultProxySettings,
     backgroundImageEnabled |-> Bool(FALSE),
     backgroundImagePath |-> Str(""),
     backgroundUrlPath |-> Str(""),
     backgroundFolderPath |-> Str(""),
     backgroundSourceType |-> Str("file"),
     backgroundRandomEnabled |-> Bool(FALSE),
     backgroundRandomInterval |-> Num(Fixed(300)),
     backgroundOpacity |-> Num(85),
     backgroundBlur |-> Num(Fixed(0)),
     backgroundBrightness |-> Num(Fixed(1)),
     backgroundSaturation |-> Num(Fixed(1)),
     backgroundSizeMode |-> Str("cover"),
     _backgroundRefreshKey |-> Num(Fixed(0)),
     mcpServers |-> Arr(<<>>),
     promptPresets |-> Arr(<<>>),
     quickTerminal |-> defaultQuickTerminalSettings,
     webInspectorEnabled |-> Bool(FALSE),
     loggingEnabled |-> Bool(FALSE),
     logLevel |-> Str("info"),
     logRetentionDays |-> Num(Fixed(7))]


----------------------------------------------------------------------------
(* Load-time migration (migration.ts).  persisted is the property map of    *)
(* the persisted state, currentState the store's current (typed) state.     *)

\* a || b
OrElse(a, b) == IF Truthy(a) THEN a ELSE b

sourceTypes == {Str("file"), Str("folder"), Str("url")}

sizeModes == {Str("cover"), Str("contain"), Str("repeat"), Str("center")}

\* { ...currentState[domain], ...persisted[domain] }
mergeDomain(persisted, currentState, domain) ==
    Obj(Merge(currentState[domain].obj, Spread(Get(persisted, domain))))

\* The mutant of mergeLegacyKeybindings in which the terminal keybindings
\* override the agent keybindings
mergeLegacyKeybindingsTerminalLast(defaults, fromTerminal, fromAgent, fromPane) ==
    Obj(Merge(Merge(Merge(defaults, fromAgent), fromTerminal), fromPane))

\* The object migrateXtermKeybindings returns on the legacy path: the
\* defaults, then the spreads of the three legacy groups in source order
mergeLegacyKeybindings(defaults, fromTerminal, fromAgent, fromPane) ==
    Obj(Merge(Merge(Merge(defaults, fromTerminal), fromAgent), fromPane))

migrateXtermKeybindings(persisted, currentState) ==
    IF Truthy(Get(persisted, "xtermKeybindings"))
    THEN mergeDomain(persisted, currentState, "xtermKeybindings")
    ELSE LET terminalKeybindings == Get(persisted, "terminalKeybindings")
             agentKeybindings == Get(persisted, "agentKeybindings")
             terminalPaneKeybindings == Get(persisted, "terminalPaneKeybindings")
             fromTerminal ==
                 IF Truthy(terminalKeybindings)
                 THEN filterDefined(
                          [newTab |-> Prop(terminalKeybindings, "newTab"),
                           closeTab |-> Prop(terminalKeybindings, "closeTab"),
                           nextTab |-> Prop(terminalKeybindings, "nextTab"),
                           prevTab |-> Prop(terminalKeybindings, "prevTab"),
                           clear |-> Prop(terminalKeybindings, "clear")])
                 ELSE EmptyObj
             fromAgent ==
                 IF Truthy(agentKeybindings)
                 THEN filterDefined(
                          [newTab |-> Prop(agentKeybindings, "newSession"),
                           closeTab |-> Prop(agentKeybindings, "closeSession"),
                           nextTab |-> Prop(agentKeybindings, "nextSession"),
                           prevTab |-> Prop(agentKeybindings, "prevSession")])
                 ELSE EmptyObj
             fromPane ==
                 IF Truthy(terminalPaneKeybindings)
                 THEN filterDefined(
                          [split |-> Prop(terminalPaneKeybindings, "split"),
                           merge |-> Prop(terminalPaneKeybindings, "merge")])
                 ELSE EmptyObj
         IN  mergeLegacyKeybindings(currentState.xtermKeybindings.obj,
                                    fromTerminal, fromAgent, fromPane)

\* The mutant of repairAutoPopup that omits the repair
repairAutoPopupOmitted(m) == m

\* The last step of migrateClaudeCodeIntegration: hideWhileRunning requires
\* stopHookEnabled
repairAutoPopup(m) ==
    IF m.enhancedInputAutoPopup = Str("hideWhileRunning")
       /\ ~Truthy(m.stopHookEnabled)
    THEN With(m, "enhancedInputAutoPopup", Str("always"))
    ELSE m

\* { ...currentState.claudeCodeIntegration, ...persisted.claudeCodeIntegration,
\*   statusLineFields: { ... } }
mergeClaudeCodeIntegration(persisted, currentState) ==
    LET p == Get(persisted, "claudeCodeIntegration")
    IN  With(Merge(currentState.claudeCodeIntegration.obj, Spread(p)),
             "statusLineFields",
             Obj(Merge(currentState.claudeCodeIntegration.obj.statusLineFields.obj,
                       Spread(Prop(p, "statusLineFields")))))

\* A legacy boolean enhancedInputAutoPopup becomes an enum value
migrateLegacyAutoPopup(m, legacyAutoPopup) ==
    IF IsBool(legacyAutoPopup)
    THEN With(m, "enhancedInputAutoPopup",
              IF legacyAutoPopup.bool THEN Str("hideWhileRunning")
                                      ELSE Str("manual"))
    ELSE m

\* The mutant of migrateClaudeCodeIntegration that repairs before it converts
\* the legacy boolean
migrateClaudeCodeIntegrationRepairFirst(persisted, currentState) ==
    Obj(migrateLegacyAutoPopup(
            repairAutoPopup(mergeClaudeCodeIntegration(persisted, currentState)),
            Prop(Get(persisted, "claudeCodeIntegration"), "enhancedInputAutoPopup")))

migrateClaudeCodeIntegration(persisted, currentState) ==
    Obj(repairAutoPopup(
            migrateLegacyAutoPopup(
                mergeClaudeCodeIntegration(persisted, currentState),
                Prop(Get(persisted, "claudeCodeIntegration"),
                     "enhancedInputAutoPopup"))))

\* persisted.agentSettings?.[agentId] ?? currentState.agentSettings[agentId]
agentConfigFor(persisted, currentState, agentId) ==
    Coalesce(Prop(Get(persisted, "agentSettings"), agentId),
             Get(currentState.agentSettings.obj, agentId))

migrateAgentDetectionStatus(persisted, currentState) ==
    LET all == Merge(currentState.agentDetectionStatus.obj,
                     Spread(Get(persisted, "agentDetectionStatus")))
    IN  Obj([agentId \in
               {a \in DOMAIN all :
                    Truthy(Prop(agentConfigFor(persisted, currentState, a),
                                "enabled"))}
             |-> all[agentId]])

\* The mutant of sanitizedBackgroundSourceType that omits sourceTypes.includes
sanitizedBackgroundSourceTypeUnchecked(persisted, currentState) ==
    IF Truthy(Get(persisted, "backgroundSourceType"))
    THEN Get(persisted, "backgroundSourceType")
    ELSE currentState.backgroundSourceType

sanitizedBackgroundSourceType(persisted, currentState) ==
    IF Truthy(Get(persisted, "backgroundSourceType"))
       /\ Get(persisted, "backgroundSourceType") \in sourceTypes
    THEN Get(persisted, "backgroundSourceType")
    ELSE currentState.backgroundSourceType

sanitizedBackgroundSizeMode(persisted, currentState) ==
    IF Truthy(Get(persisted, "backgroundSizeMode"))
       /\ Get(persisted, "backgroundSizeMode") \in sizeModes
    THEN Get(persisted, "backgroundSizeMode")
    ELSE currentState.backgroundSizeMode

\* sanitizedBackgroundUrlPath ||
\*   (sanitizedBackgroundSourceType === 'url' ? sanitizedBackgroundImagePath : '')
migratedBackgroundUrlPath(persisted, currentState) ==
    OrElse(sanitizeString(Get(persisted, "backgroundUrlPath"),
                          currentState.backgroundUrlPath),
           IF sanitizedBackgroundSourceType(persisted, currentState) = Str("url")
           THEN sanitizeString(Get(persisted, "backgroundImagePath"),
                               currentState.backgroundImagePath)
           ELSE Str(""))

\* The mutant of migratedTerminalRenderer without the migration of 'canvas'
migratedTerminalRendererKept(persisted) == Get(persisted, "terminalRenderer")

\* persisted.terminalRenderer === 'canvas' ? 'webgl' : persisted.terminalRenderer
migratedTerminalRenderer(persisted) ==
    IF Get(persisted, "terminalRenderer") = Str("canvas")
    THEN Str("webgl") ELSE Get(persisted, "terminalRenderer")

\* { ...currentState, ...persisted, ...(terminalRenderer && { terminalRenderer }) }
spreadTopLevel(persisted, currentState) ==
    IF Truthy(migratedTerminalRenderer(persisted))
    THEN With(Merge(currentState, persisted), "terminalRenderer",
              migratedTerminalRenderer(persisted))
    ELSE Merge(currentState, persisted)

\* The object migrateSettings returns for a persisted state that is present
migrateBody(persisted, currentState) ==
    Merge(spreadTopLevel(persisted, currentState),
          [xtermKeybindings |-> migrateXtermKeybindings(persisted, currentState),
           mainTabKeybindings |->
               mergeDomain(persisted, currentState, "mainTabKeybindings"),
           sourceControlKeybindings |->
               mergeDomain(persisted, currentState, "sourceControlKeybindings"),
           searchKeybindings |->
               mergeDomain(persisted, currentState, "searchKeybindings"),
           globalKeybindings |->
               mergeDomain(persisted, currentState, "globalKeybindings"),
           workspaceKeybindings |->
               mergeDomain(persisted, currentState, "workspaceKeybindings"),
           backgroundImageEnabled |->
               sanitizeBoolean(Get(persisted, "backgroundImageEnabled"),
                               currentState.backgroundImageEnabled),
           backgroundImagePath |->
               sanitizeString(Get(persisted, "backgroundImagePath"),
                              currentState.backgroundImagePath),
           backgroundUrlPath |-> migratedBackgroundUrlPath(persisted, currentState),
           backgroundFolderPath |->
               sanitizeString(Get(persisted, "backgroundFolderPath"),
                              currentState.backgroundFolderPath),
           backgroundSourceType |->
               sanitizedBackgroundSourceType(persisted, currentState),
           backgroundRandomEnabled |->
               sanitizeBoolean(Get(persisted, "backgroundRandomEnabled"),
                               currentState.backgroundRandomEnabled),
           backgroundRandomInterval |->
               clampNumber(Get(persisted, "backgroundRandomInterval"),
                           Fixed(5), Fixed(86400),
                           currentState.backgroundRandomInterval),
           backgroundOpacity |->
               clampNumber(Get(persisted, "backgroundOpacity"),
                           Fixed(0), Fixed(1), currentState.backgroundOpacity),
           backgroundBlur |->
               clampNumber(Get(persisted, "backgroundBlur"),
                           Fixed(0), Fixed(20), currentState.backgroundBlur),
           backgroundBrightness |->
               clampNumber(Get(persisted, "backgroundBrightness"),
                           Fixed(0), Fixed(2), currentState.backgroundBrightness),
           backgroundSaturation |->
               clampNumber(Get(persisted, "backgroundSaturation"),
                           Fixed(0), Fixed(2), currentState.backgroundSaturation),
           backgroundSizeMode |->
               sanitizedBackgroundSizeMode(persisted, currentState),
           editorSettings |-> mergeDomain(persisted, currentState, "editorSettings"),
           claudeCodeIntegration |->
               migrateClaudeCodeIntegration(persisted, currentState),
           commitMessageGenerator |->
               mergeDomain(persisted, currentState, "commitMessageGenerator"),
           codeReview |-> mergeDomain(persisted, currentState, "codeReview"),
           branchNameGenerator |->
               mergeDomain(persisted, currentState, "branchNameGenerator"),
           hapiSettings |-> mergeDomain(persisted, currentState, "hapiSettings"),
           agentDetectionStatus |->
               migrateAgentDetectionStatus(persisted, currentState),
           mcpServers |->
               Coalesce(Get(persisted, "mcpServers"), currentState.mcpServers),
           promptPresets |->
               Coalesce(Get(persisted, "promptPresets"), currentState.promptPresets),
           quickTerminal |-> mergeDomain(persisted, currentState, "quickTerminal")])

\* migrateSettings(persistedState, currentState): persistedState is Undefined,
\* Null or an object; the result is the property map of the new state
migrateSettings(persistedState_, currentState) ==
    IF ~Truthy(persistedState_) THEN currentState
    ELSE migrateBody(Spread(persistedState_), currentState)


----------------------------------------------------------------------------
(* The persisted snapshots the migration is applied to: absent, null, or an *)
(* object holding at most MaxPersistedKeys of the top-level fields below,   *)
(* each with a well-typed, a wrong-typed, a partial, a legacy or an         *)
(* out-of-range value.                                                      *)

MaxPersistedKeys == 2

DetectionInfo == Obj([installed |-> Bool(TRUE), detectedAt |-> Num(Fixed(1))])

PersistedCandidates ==
    [fontSize |-> {Num(Fixed(16)), Str("big")},
     logRetentionDays |-> {Num(Fixed(14)), Num(Fixed(1000))},
     terminalRenderer |-> {Str("canvas"), Str("webgl"), Str("bogus"), Null},
     backgroundOpacity |-> {Num(Fixed(5)), Num(50), Str("0.5"), Str("abc")},
     backgroundBlur |-> {Num(Fixed(25)), Str("7")},
     backgroundBrightness |-> {Num(Fixed(3)), Null},
     backgroundSaturation |-> {Num(0 - Fixed(1)), Str("")},
     backgroundRandomInterval |-> {Num(Fixed(1)), Str("600"), Bool(TRUE)},
     backgroundImageEnabled |-> {Bool(TRUE), Str("yes")},
     backgroundRandomEnabled |-> {Bool(TRUE), Num(Fixed(1))},
     backgroundImagePath |-> {Str("https://example.com/a.png"), Num(Fixed(7))},
     backgroundUrlPath |-> {Str("https://example.com/b.png"), Null},
     backgroundFolderPath |-> {Str("/pictures"), Bool(FALSE)},
     backgroundSourceType |->
         {Str("url"), Str("folder"), Str("bogus"), Num(Fixed(1))},
     backgroundSizeMode |-> {Str("contain"), Str("bogus")},
     xtermKeybindings |-> {Obj([newTab |-> Keybinding("n", {"ctrl"})]), Null},
     terminalKeybindings |->
         {Obj([newTab |-> Keybinding("t", {"ctrl"}),
               clear |-> Keybinding("k", {"ctrl"})])},
     agentKeybindings |-> {Obj([newSession |-> Keybinding("a", {"alt"})])},
     terminalPaneKeybindings |-> {Obj([split |-> Keybinding("s", {"alt"})])},
     mainTabKeybindings |-> {Obj([switchToFile |-> Keybinding("9", {"alt"})])},
     sourceControlKeybindings |-> {Obj([prevDiff |-> Keybinding("F5", {})])},
     searchKeybindings |-> {Obj([searchFiles |-> Keybinding("o", {"meta"})])},
     globalKeybindings |-> {Obj(EmptyObj)},
     workspaceKeybindings |->
         {Obj([toggleWorktree |-> Keybinding("u", {"meta"})])},
     editorSettings |->
         {Obj([fontSize |-> Num(Fixed(15))]),
          Obj([tabSize |-> Num(Fixed(4)), autoSave |-> Str("afterDelay")])},
     commitMessageGenerator |-> {Obj([model |-> Str("sonnet")])},
     codeReview |-> {Obj([enabled |-> Bool(FALSE)])},
     branchNameGenerator |-> {Obj([enabled |-> Bool(TRUE)])},
     hapiSettings |-> {Obj([webappPort |-> Num(Fixed(4000))])},
     quickTerminal |-> {Obj([isOpen |-> Bool(TRUE)])},
     claudeCodeIntegration |->
         {Obj([enhancedInputAutoPopup |-> Bool(TRUE)]),
          Obj([enhancedInputAutoPopup |-> Bool(FALSE)]),
          Obj([enhancedInputAutoPopup |-> Bool(TRUE),
               stopHookEnabled |-> Bool(FALSE)]),
          Obj([stopHookEnabled |-> Bool(FALSE)]),
          Obj([enhancedInputAutoPopup |-> Str("hideWhileRunning"),
               stopHookEnabled |-> Bool(FALSE)]),
          Obj([enhancedInputAutoPopup |-> Str("manual"),
               stopHookEnabled |-> Bool(FALSE)]),
          Obj([enhancedInputAutoPopup |-> Str("bogus")]),
          Obj([statusLineFields |-> Obj([duration |-> Bool(TRUE)])])},
     agentSettings |->
         {OrderedObj([claude |-> AgentConfig(FALSE, FALSE),
                      codex |-> AgentConfig(TRUE, TRUE)], <<"claude", "codex">>),
          OrderedObj([codex |-> AgentConfig(TRUE, TRUE)], <<"codex">>),
          Null},
     agentDetectionStatus |->
         {Obj([claude |-> DetectionInfo, codex |-> DetectionInfo]),
          Obj([gemini |-> DetectionInfo])},
     proxySettings |->
         {Obj([enabled |-> Bool(TRUE)]),
          Obj([enabled |-> Bool(TRUE), server |-> Str("http://proxy:8080"),
               bypassList |-> Str("")])},
     shellConfig |-> {Obj([shellType |-> Str("powershell7")]), Obj(EmptyObj)},
     mcpServers |-> {Null, Arr(<<Str("server1")>>)},
     promptPresets |-> {Arr(<<Str("preset1")>>)}]

PersistedPairs ==
    UNION {{<<k, v>> : v \in PersistedCandidates[k]} :
               k \in DOMAIN PersistedCandidates}

RECURSIVE PersistedMaps(_)
PersistedMaps(n) ==
    IF n = 0 THEN {EmptyObj}
    ELSE LET smaller == PersistedMaps(n - 1)
         IN  smaller \cup {With(m, kv[1], kv[2]) : m \in smaller, kv \in PersistedPairs}

PersistedStates ==
    {Undefined, Null} \cup {Obj(m) : m \in PersistedMaps(MaxPersistedKeys)}

----------------------------------------------------------------------------
(* The migration applied once, and once more to its own result             *)

\* The store is left aside while the migration is examined on its own
StoreIdle ==
    /\ state = getInitialState
    /\ hpc = "ready"
    /\ hdata = Null
    /\ disk = Null
    /\ cycles = <<>>
    /\ held = {}
    /\ lastWrite = [kind |-> "none", value |-> Null]

MigrateInit ==
    /\ persistedState \in PersistedStates
    /\ merged = EmptyObj
    /\ remerged = EmptyObj
    /\ mpc = "start"
    /\ StoreIdle
    /\ OthersIdle

\* merge: (persistedState, currentState) => migrateSettings(...)
MigrateFirst ==
    /\ mpc = "start"
    /\ merged' = migrateSettings(persistedState, getInitialState)
    /\ mpc' = "merged"
    /\ UNCHANGED <<persistedState, remerged>>
    /\ UNCHANGED <<svars, ovars, hvars>>

\* The next load, of the state the first one produced
MigrateAgain ==
    /\ mpc = "merged"
    /\ remerged' = migrateSettings(Obj(merged), getInitialState)
    /\ mpc' = "remerged"
    /\ UNCHANGED <<persistedState, merged>>
    /\ UNCHANGED <<svars, ovars, hvars>>

MigrateNext == MigrateFirst \/ MigrateAgain

SpecMigrate == MigrateInit /\ [][MigrateNext]_vars

----------------------------------------------------------------------------
(* clampNumber on its own                                                   *)

\* The migration is left aside
MigrateIdle ==
    /\ persistedState = Undefined
    /\ merged = EmptyObj
    /\ remerged = EmptyObj
    /\ mpc = "start"

ClampInit ==
    /\ \E value \in ClampValues, range \in ClampRanges :
           clampCall = [pc |-> "call", value |-> value, min |-> range.min,
                        max |-> range.max, fallback |-> range.fallback]
    /\ MigrateIdle
    /\ StoreIdle
    /\ HostIdle
    /\ TodoIdle
    /\ TdbIdle /\ TstoreIdle /\ KanbanIdle /\ OpenerIdle /\ TermIdle

\* clampNumber returns
ClampReturn ==
    /\ clampCall.pc = "call"
    /\ clampCall' =
           [pc |-> "done", value |-> clampCall.value, min |-> clampCall.min,
            max |-> clampCall.max, fallback |-> clampCall.fallback,
            result |-> clampNumber(clampCall.value, clampCall.min,
                                   clampCall.max, clampCall.fallback)]
    /\ UNCHANGED <<mvars, svars, hvars, todo, xvars>>

SpecClamp == ClampInit /\ [][ClampReturn]_vars

----------------------------------------------------------------------------
(* The storage adapter (storage.ts) and the persisted store (index.ts).     *)
(*                                                                          *)
(* The persist middleware reads the value under 'enso-settings' once, at    *)
(* construction, merges it into the state with merge and then calls the     *)
(* onRehydrateStorage callback; every set of a setter also starts a setItem *)
(* with the projection of the state the set produced.  A setItem and the    *)
(* cleanupLegacyFields of the callback are each an awaited read of the      *)
(* settings file followed by an awaited write: a cycle.  The settings file  *)
(* is read whole and replaced whole by a write.                             *)

\* name: 'enso-settings'
StoreName == "enso-settings"

\* legacyFields of cleanupLegacyFields
legacyFields ==
    {"terminalKeybindings", "agentKeybindings", "terminalPaneKeybindings"}

\* JSON.parse(JSON.stringify(v)): a property whose value is undefined is
\* dropped, an undefined array element becomes null
RECURSIVE JsonRoundTrip(_)
JsonRoundTrip(v) ==
    IF IsObj(v)
    THEN LET ks == {k \in DOMAIN v.obj : ~IsUndefined(v.obj[k])}
             g == [k \in ks |-> JsonRoundTrip(v.obj[k])]
         IN  IF "keys" \in DOMAIN v
             THEN OrderedObj(g, SelectSeq(v.keys, LAMBDA k : k \in ks))
             ELSE Obj(g)
    ELSE IF IsArr(v)
    THEN Arr([i \in DOMAIN v.arr |->
                 IF IsUndefined(v.arr[i]) THEN Null
                 ELSE JsonRoundTrip(v.arr[i])])
    ELSE v

\* The mutant of partialize that keeps every field
partializeNothing(s) == s

\* partialize: the state without the transient _backgroundRefreshKey
partialize(s) == Without(s, "_backgroundRefreshKey")

\* The value the middleware hands to setItem for the state s, as
\* electronStorage.setItem parses it: { state: partialize(s), version: 0 }
StorageValue(s) ==
    JsonRoundTrip(Obj([state |-> Obj(partialize(s)), version |-> Num(0)]))

\* electronStorage.getItem on the file contents data, parsed again by the
\* JSON storage of the middleware
getItem(data) ==
    IF IsObj(data) /\ StoreName \in DOMAIN data.obj
    THEN JsonRoundTrip(data.obj[StoreName])
    ELSE Null

\* The state the middleware passes to merge for a stored value: the value's
\* state when its version is the store's version 0, nothing otherwise
persistedStateOf(item) ==
    IF ~Truthy(item) THEN Undefined
    ELSE IF IsNum(Prop(item, "version")) /\ Prop(item, "version") # Num(0)
    THEN Undefined
    ELSE Prop(item, "state")

\* The mutant of setItemData that merges the new state into the stored one
\* field by field
setItemDataFieldwise(existingData, value) ==
    LET stored == Prop(Prop(existingData, StoreName), "state")
    IN  Obj(With(Spread(existingData), StoreName,
                 Obj(With(Spread(value), "state",
                          Obj(Merge(Spread(stored),
                                    Spread(Prop(value, "state"))))))))

\* newData of electronStorage.setItem: the file contents read, with the
\* value under name replaced
setItemData(existingData, value) ==
    Obj(With(Spread(IF Truthy(existingData) THEN existingData
                    ELSE Obj(EmptyObj)),
             StoreName, value))

\* cleanupLegacyFields on the file contents data: whether it writes, and what
cleanupData(data) ==
    LET ensoSettings == Prop(data, StoreName)
        st == Prop(ensoSettings, "state")
        hasLegacy == \E f \in legacyFields : f \in DOMAIN Spread(st)
        cleaned == [k \in DOMAIN Spread(st) \ legacyFields |-> st.obj[k]]
    IN  IF IsObj(data) /\ Truthy(st) /\ hasLegacy
        THEN [write |-> TRUE,
              data |-> Obj(With(data.obj, StoreName,
                                Obj(With(ensoSettings.obj, "state",
                                         Obj(cleaned)))))]
        ELSE [write |-> FALSE, data |-> data]

\* window.electronAPI.settings.read() in the main process: the contents of
\* the settings file, null when there is none
settingsRead(file) == file

\* window.electronAPI.settings.write(data) in the main process: the file is
\* replaced by data
settingsWrite(file, data) == data

\* A cycle that has sent its read
NewCycle(kind, value) ==
    [kind |-> kind, pc |-> "read", value |-> value, data |-> Null,
     stale |-> FALSE]

\* At most MaxCycles setItem cycles are in flight where the cycles run, and
\* at most MaxAgentWrites where only the agent setters are followed
MaxCycles == 2

MaxAgentWrites == 3

SetItemsInFlight == Len(SelectSeq(cycles, LAMBDA c : c.kind = "setItem"))

RemoveAt(s, i) == [j \in 1..(Len(s) - 1) |-> IF j < i THEN s[j] ELSE s[j + 1]]

\* The settings files found at start: none, the file a previous session of
\* this version wrote (next to another top-level key), and the file of a
\* version that still had the legacy keybinding fields
SavedState == With(partialize(getInitialState), "fontSize", Num(Fixed(16)))

LegacyState ==
    [fontSize |-> Num(Fixed(16)),
     terminalKeybindings |-> Obj([newTab |-> Keybinding("t", {"ctrl"})])]

DiskBlobs ==
    {Null,
     Obj((StoreName :> StorageValue(SavedState))
         @@ ("window-state" :> Obj([maximized |-> Bool(TRUE)]))),
     Obj(StoreName :> Obj([state |-> Obj(LegacyState), version |-> Num(0)]))}

FontSizes == {Fixed(12), Fixed(16)}

\* The store after construction: the initial state, and the read of the
\* hydration sent
StoreStart(blobs) ==
    /\ state = getInitialState
    /\ hpc = "read"
    /\ hdata = Null
    /\ disk \in blobs
    /\ cycles = <<>>
    /\ held = {getInitialState}
    /\ lastWrite = [kind |-> "none", value |-> Null]
    /\ persistedState = Undefined
    /\ merged = EmptyObj
    /\ remerged = EmptyObj
    /\ mpc = "start"
    /\ OthersIdle

StoreInit == StoreStart(DiskBlobs)

\* The main process serves the read of electronStorage.getItem
GetItemRead ==
    /\ hpc = "read"
    /\ hdata' = settingsRead(disk)
    /\ hpc' = "reply"
    /\ UNCHANGED <<state, disk, cycles, held, lastWrite>>
    /\ UNCHANGED <<mvars, ovars, hvars>>

\* A call of window.electronAPI, made by the setter or callback `from`
HostCall(api, from) == [api |-> api, from |-> from]

\* The host calls of the onRehydrateStorage callback for a hydrated state:
\* applyInitialSettings sends the language; the proxy settings and the start
\* of the Web Inspector follow when the state has them
onRehydrateHostCalls(s) ==
    <<HostCall("app.setLanguage", "onRehydrateStorage")>>
    \o (IF Truthy(Get(s, "proxySettings"))
        THEN <<HostCall("app.setProxy", "onRehydrateStorage")>> ELSE <<>>)
    \o (IF Truthy(Get(s, "webInspectorEnabled"))
        THEN <<HostCall("webInspector.start", "onRehydrateStorage")>>
        ELSE <<>>)

\* The middleware receives the stored value: merge, set(..., true), then the
\* onRehydrateStorage callback, which starts cleanupLegacyFields.  The
\* middleware itself stores nothing here: the stored version is the store's.
Rehydrate ==
    /\ hpc = "reply"
    /\ LET stateFromStorage ==
               migrateSettings(persistedStateOf(getItem(hdata)), state)
       IN  /\ state' = stateFromStorage
           /\ held' = held \cup {stateFromStorage}
    /\ cycles' = Append(cycles, NewCycle("cleanup", Null))
    /\ hpc' = "ready"
    /\ UNCHANGED <<hdata, disk, lastWrite>>
    /\ hostCalls' = hostCalls \o onRehydrateHostCalls(state')
    /\ UNCHANGED <<mvars, ovars, hostEvent>>

\* set(partial) of a setter, as the middleware wraps it: the state changes
\* and a setItem with the projection of the new state starts
Set(newState) ==
    /\ state' = newState
    /\ cycles' = Append(cycles, NewCycle("setItem", StorageValue(newState)))
    /\ held' = held \cup {newState}

\* A setter that only calls set, taken while fewer than maxInFlight setItem
\* cycles are in flight
SetState(newState, maxInFlight) ==
    /\ SetItemsInFlight < maxInFlight
    /\ Set(newState)
    /\ UNCHANGED <<hpc, hdata, disk, lastWrite>>
    /\ UNCHANGED <<mvars, ovars, hvars>>

setFontSize(fontSize) ==
    SetState(With(state, "fontSize", Num(fontSize)), MaxCycles)

\* The main process serves the read of cycle i; the cycle computes what it
\* will write (cleanupLegacyFields ends here when there is nothing to clean)
CycleRead(i) ==
    /\ i \in DOMAIN cycles
    /\ cycles[i].pc = "read"
    /\ LET c == cycles[i]
           cleanup == cleanupData(settingsRead(disk))
       IN  cycles' =
               IF c.kind = "setItem"
               THEN [cycles EXCEPT ![i].pc = "write",
                                   ![i].data = setItemData(settingsRead(disk),
                                                            c.value)]
               ELSE IF cleanup.write
               THEN [cycles EXCEPT ![i].pc = "write",
                                   ![i].data = cleanup.data]
               ELSE RemoveAt(cycles, i)
    /\ UNCHANGED <<state, hpc, hdata, disk, held, lastWrite>>
    /\ UNCHANGED <<mvars, ovars, hvars>>

\* The main process serves the write of cycle i: the file is replaced.  Every
\* other cycle that has read and not yet written now holds a stale copy.
CycleWrite(i) ==
    /\ i \in DOMAIN cycles
    /\ cycles[i].pc = "write"
    /\ disk' = settingsWrite(disk, cycles[i].data)
    /\ lastWrite' = [kind |-> cycles[i].kind, value |-> cycles[i].value]
    /\ cycles' = RemoveAt([j \in DOMAIN cycles |->
                              IF cycles[j].pc = "write"
                              THEN [cycles[j] EXCEPT !.stale = TRUE]
                              ELSE cycles[j]], i)
    /\ UNCHANGED <<state, hpc, hdata, held>>
    /\ UNCHANGED <<mvars, ovars, hvars>>

StoreNext ==
    \/ GetItemRead
    \/ Rehydrate
    \/ \E fontSize \in FontSizes : setFontSize(fontSize)
    \/ \E i \in DOMAIN cycles : CycleRead(i)
    \/ \E i \in DOMAIN cycles : CycleWrite(i)

SpecStore == StoreInit /\ [][StoreNext]_vars

-----------------------------------------------------------------------------
(* The setters that call the host process (index.ts).  The host side of     *)
(* window.electronAPI is outside the store: a call resolves, rejects, or,   *)
(* for webInspector.start, resolves with success = false.                   *)

\* At most MaxHostWrites setItem cycles are in flight where the setters with
\* host calls are followed
MaxHostWrites == 1

\* A setter that calls set and makes host calls without awaiting them
SetAndCall(newState, calls) ==
    /\ SetItemsInFlight < MaxHostWrites
    /\ Set(newState)
    /\ hostCalls' = hostCalls \o calls
    /\ UNCHANGED <<hpc, hdata, disk, lastWrite, hostEvent>>
    /\ UNCHANGED <<mvars, ovars>>

setLanguage(language) ==
    SetAndCall(With(state, "language", Str(language)),
               <<HostCall("app.setLanguage", "setLanguage")>>)

\* The mutant of updateDomain that replaces the domain by the argument
updateDomainReplaced(s, domain, settings) == With(s, domain, Obj(settings))

\* { [domain]: { ...state[domain], ...settings } } set on the state s
updateDomain(s, domain, settings) ==
    With(s, domain, Obj(Merge(Spread(s[domain]), settings)))

setProxySettings(settings) ==
    SetAndCall(updateDomain(state, "proxySettings", settings),
               <<HostCall("app.setProxy", "setProxySettings")>>)

setAutoUpdateEnabled(autoUpdateEnabled) ==
    SetAndCall(With(state, "autoUpdateEnabled", Bool(autoUpdateEnabled)),
               <<HostCall("updater.setAutoUpdateEnabled",
                          "setAutoUpdateEnabled")>>)

setLoggingEnabled(loggingEnabled) ==
    SetAndCall(With(state, "loggingEnabled", Bool(loggingEnabled)),
               <<HostCall("log.updateConfig", "setLoggingEnabled")>>)

setLogLevel(logLevel) ==
    SetAndCall(With(state, "logLevel", Str(logLevel)),
               <<HostCall("log.updateConfig", "setLogLevel")>>)

\* The async setter up to its await: set, then start or stop is called
setWebInspectorEnabled(enabled) ==
    SetAndCall(With(state, "webInspectorEnabled", Bool(enabled)),
               <<HostCall(IF enabled THEN "webInspector.start"
                                     ELSE "webInspector.stop",
                          "setWebInspectorEnabled")>>)

HostOutcomes(api) ==
    IF api = "webInspector.start" THEN {"ok", "failed", "rejected"}
    ELSE {"ok", "rejected"}

\* Whether the code that runs when the call settles resets the field: only
\* setWebInspectorEnabled does, when start resolved with success = false
rollsBack(call, outcome) ==
    call.from = "setWebInspectorEnabled" /\ outcome = "failed"

\* Where a failure ends up: "console" when the code logs it, "promise" when
\* it rejects the promise the setter returned, "unhandled" when nothing in
\* the store observes the rejected promise, "none" when it is ignored
failureReaches(call, outcome) ==
    IF outcome = "ok" THEN "none"
    ELSE IF call.from = "setWebInspectorEnabled"
         THEN IF outcome = "failed" THEN "console" ELSE "promise"
    ELSE IF call.api = "webInspector.start"
         THEN IF outcome = "rejected" THEN "console" ELSE "none"
    ELSE "unhandled"

\* A host call settles, and the code waiting for it runs
HostReply(i, outcome) ==
    /\ i \in DOMAIN hostCalls
    /\ outcome \in HostOutcomes(hostCalls[i].api)
    /\ LET call == hostCalls[i]
       IN  /\ hostEvent' = [api |-> call.api, from |-> call.from,
                            outcome |-> outcome,
                            reaches |-> failureReaches(call, outcome)]
           /\ IF rollsBack(call, outcome)
              THEN Set(With(state, "webInspectorEnabled", Bool(FALSE)))
              ELSE UNCHANGED <<state, cycles, held>>
    /\ hostCalls' = RemoveAt(hostCalls, i)
    /\ UNCHANGED <<hpc, hdata, disk, lastWrite>>
    /\ UNCHANGED <<mvars, ovars>>

Languages == {"zh"}
ProxyUpdates == {[enabled |-> Bool(TRUE)]}
LogLevels == {"debug"}

\* The settings files found at start: none, and one saved with the Web
\* Inspector enabled
InspectorState ==
    With(partialize(getInitialState), "webInspectorEnabled", Bool(TRUE))

HostInit ==
    StoreStart({Null, Obj(StoreName :> StorageValue(InspectorState))})

HostNext ==
    \/ GetItemRead
    \/ Rehydrate
    \/ \E language \in Languages : setLanguage(language)
    \/ \E settings \in ProxyUpdates : setProxySettings(settings)
    \/ \E enabled \in BOOLEAN : setAutoUpdateEnabled(enabled)
    \/ \E enabled \in BOOLEAN : setLoggingEnabled(enabled)
    \/ \E logLevel \in LogLevels : setLogLevel(logLevel)
    \/ \E enabled \in BOOLEAN : setWebInspectorEnabled(enabled)
    \/ \E i \in DOMAIN hostCalls, outcome \in {"ok", "failed", "rejected"} :
           HostReply(i, outcome)

SpecHost == HostInit /\ [][HostNext]_vars

-----------------------------------------------------------------------------
(* The store when the read or the write of the settings file rejects.  The  *)
(* adapter has no try/catch: a rejection of window.electronAPI.settings     *)
(* rejects getItem, setItem or cleanupLegacyFields at its await.            *)

\* At most MaxFailWrites setItem cycles are in flight where the reads and
\* writes may reject
MaxFailWrites == 1

WorktreePaths == {"/w"}

setDefaultWorktreePath(defaultWorktreePath) ==
    SetState(With(state, "defaultWorktreePath", Str(defaultWorktreePath)),
             MaxFailWrites)

\* The read of the hydration rejects: the middleware calls the
\* onRehydrateStorage callback with no state.  The callback applies the
\* settings of getState() and, having no state, starts no cleanup.
GetItemRejects ==
    /\ hpc = "read"
    /\ hpc' = "failed"
    /\ hostCalls' =
           hostCalls \o <<HostCall("app.setLanguage", "onRehydrateStorage")>>
    /\ UNCHANGED <<state, hdata, disk, cycles, held, lastWrite>>
    /\ UNCHANGED <<mvars, ovars, hostEvent>>

\* The cycles in flight after the await of cycle i rejected, retried
afterRejectionRetried(cs, i) == [cs EXCEPT ![i] = NewCycle(cs[i].kind, cs[i].value)]

\* The cycles in flight after the await of cycle i rejected: setItem and
\* cleanupLegacyFields end there, nothing catches the error to try again
afterRejection(cs, i) == RemoveAt(cs, i)

\* The read or the write of cycle i rejects
CycleRejects(i) ==
    /\ i \in DOMAIN cycles
    /\ cycles' = afterRejection(cycles, i)
    /\ UNCHANGED <<state, hpc, hdata, disk, held, lastWrite>>
    /\ UNCHANGED <<mvars, ovars, hvars>>

StoreFailNext ==
    \/ GetItemRead
    \/ GetItemRejects
    \/ Rehydrate
    \/ \E path \in WorktreePaths : setDefaultWorktreePath(path)
    \/ \E i \in DOMAIN cycles : CycleRead(i)
    \/ \E i \in DOMAIN cycles : CycleWrite(i)
    \/ \E i \in DOMAIN cycles : CycleRejects(i)

SpecStoreFail == StoreInit /\ [][StoreFailNext]_vars

-----------------------------------------------------------------------------
(* The transient refresh counter (index.ts)                                 *)

\* At most MaxRefreshWrites setItem cycles are in flight where the refresh
\* counter is followed, and the counter is followed up to MaxRefreshKey
MaxRefreshWrites == 1
MaxRefreshKey == 1

\* set((state) => ({ _backgroundRefreshKey: state._backgroundRefreshKey + 1 }))
triggerBackgroundRefresh ==
    /\ state._backgroundRefreshKey.num < Fixed(MaxRefreshKey)
    /\ SetState(With(state, "_backgroundRefreshKey",
                     Num(state._backgroundRefreshKey.num + Fixed(1))),
                MaxRefreshWrites)

\* The shell that the auto-detection on Windows selects
ShellConfigs == {Obj([shellType |-> Str("powershell7")])}

setShellConfig(shellConfig) ==
    SetState(With(state, "shellConfig", shellConfig), MaxRefreshWrites)

RefreshNext ==
    \/ GetItemRead
    \/ Rehydrate
    \/ triggerBackgroundRefresh
    \/ \E shellConfig \in ShellConfigs : setShellConfig(shellConfig)
    \/ \E i \in DOMAIN cycles : CycleRead(i)
    \/ \E i \in DOMAIN cycles : CycleWrite(i)

SpecRefresh == StoreInit /\ [][RefreshNext]_vars

-----------------------------------------------------------------------------
(* The partial-update setters (index.ts)                                    *)

\* At most MaxPartialWrites setItem cycles are in flight where the
\* partial-update setters are followed (setProxySettings, with its host call,
\* keeps its own bound MaxHostWrites)
MaxPartialWrites == 2

setEditorSettings(settings) ==
    SetState(updateDomain(state, "editorSettings", settings),
             MaxPartialWrites)

setClaudeCodeIntegration(settings) ==
    SetState(updateDomain(state, "claudeCodeIntegration", settings),
             MaxPartialWrites)

setCommitMessageGenerator(settings) ==
    SetState(updateDomain(state, "commitMessageGenerator", settings),
             MaxPartialWrites)

setCodeReview(settings) ==
    SetState(updateDomain(state, "codeReview", settings), MaxPartialWrites)

setBranchNameGenerator(settings) ==
    SetState(updateDomain(state, "branchNameGenerator", settings),
             MaxPartialWrites)

setHapiSettings(settings) ==
    SetState(updateDomain(state, "hapiSettings", settings),
             MaxPartialWrites)

\* The arguments tried for the setter of each domain
PartialUpdates(domain) ==
    CASE domain = "editorSettings" ->
             {[fontSize |-> Num(Fixed(15))],
              [tabSize |-> Num(Fixed(4)), autoSave |-> Str("afterDelay")]}
      [] domain = "claudeCodeIntegration" ->
             {[stopHookEnabled |-> Bool(FALSE)],
              [enhancedInputAutoPopup |-> Str("always")]}
      [] domain = "commitMessageGenerator" -> {[model |-> Str("sonnet")]}
      [] domain = "codeReview" -> {[language |-> Str("en")]}
      [] domain = "branchNameGenerator" -> {[enabled |-> Bool(TRUE)]}
      [] domain = "hapiSettings" -> {[enabled |-> Bool(TRUE)]}
      [] domain = "proxySettings" -> ProxyUpdates

PartialNext ==
    \/ GetItemRead
    \/ Rehydrate
    \/ \E settings \in PartialUpdates("editorSettings") :
           setEditorSettings(settings)
    \/ \E settings \in PartialUpdates("claudeCodeIntegration") :
           setClaudeCodeIntegration(settings)
    \/ \E settings \in PartialUpdates("commitMessageGenerator") :
           setCommitMessageGenerator(settings)
    \/ \E settings \in PartialUpdates("codeReview") : setCodeReview(settings)
    \/ \E settings \in PartialUpdates("branchNameGenerator") :
           setBranchNameGenerator(settings)
    \/ \E settings \in PartialUpdates("hapiSettings") :
           setHapiSettings(settings)
    \/ \E settings \in PartialUpdates("proxySettings") :
           setProxySettings(settings)

SpecPartial == StoreInit /\ [][PartialNext]_vars

-----------------------------------------------------------------------------
(* The one-time migration of the todo boards from localStorage to the task  *)
(* database: migrateLocalStorage of the todo store in the renderer, the     *)
(* TODO_MIGRATE handler and TodoService.migrateFromLocalStorage in the main *)
(* process.  A board is the sequence of the ids of its tasks, or Undefined  *)
(* when it has no tasks property.                                           *)

\* The values of the legacy key that are tried (Null: the key is absent)
BoardsJsons ==
    {Null, Str(""), Str("not json"), Str("null"), Str("{}"),
     Str("{r1:{tasks:[t1]}}"), Str("{r1:{tasks:[t1,t2]}}"),
     Str("{r1:{},r2:{tasks:[t2]}}")}

\* JSON.parse(boardsJson): the boards in order, Null, or a SyntaxError
ParseBoards(json) ==
    CASE json = "null" -> [error |-> FALSE, value |-> Null]
      [] json = "{}" -> [error |-> FALSE, value |-> Arr(<<>>)]
      [] json = "{r1:{tasks:[t1]}}" ->
             [error |-> FALSE, value |-> Arr(<<Arr(<<"t1">>)>>)]
      [] json = "{r1:{tasks:[t1,t2]}}" ->
             [error |-> FALSE, value |-> Arr(<<Arr(<<"t1", "t2">>)>>)]
      [] json = "{r1:{},r2:{tasks:[t2]}}" ->
             [error |-> FALSE, value |-> Arr(<<Undefined, Arr(<<"t2">>)>>)]
      [] OTHER -> [error |-> TRUE, value |-> Undefined]

\* The tasks that the loops over the boards insert, in order: a board
\* without tasks is skipped
RECURSIVE TasksOf(_)
TasksOf(boards) ==
    IF boards = <<>> THEN <<>>
    ELSE (IF IsArr(Head(boards)) THEN Head(boards).arr ELSE <<>>)
         \o TasksOf(Tail(boards))

\* The task database when the application starts: not created (initialize
\* failed before opening it), open, or unusable; with or without a task
DbStates == {"none", "open", "broken"}
DbRows == {{}, {"t1"}}

TodoInit ==
    /\ \E stored \in BoardsJsons, db \in DbStates, rows \in DbRows :
           todo = [pc |-> "load", stored |-> stored, db |-> db,
                   handler |-> "idle", boards |-> Null, pending |-> <<>>,
                   txn |-> {}, rows |-> IF db = "open" THEN rows ELSE {},
                   calls |-> 0, console |-> <<>>]
    /\ MigrateIdle
    /\ StoreIdle
    /\ ClampIdle
    /\ HostIdle
    /\ TdbIdle /\ TstoreIdle /\ KanbanIdle /\ OpenerIdle /\ TermIdle

TodoUnchanged == UNCHANGED <<mvars, svars, hvars, clampCall, xvars>>

\* migrateLocalStorage up to its await: nothing is called when the key is
\* absent or empty
migrateLocalStorage ==
    /\ todo.pc = "load"
    /\ todo' = IF ~Truthy(todo.stored)
               THEN [todo EXCEPT !.pc = "done"]
               ELSE [todo EXCEPT !.pc = "called", !.handler = "ready",
                                 !.calls = @ + 1]
    /\ TodoUnchanged

\* The TODO_MIGRATE handler up to the first insert: ensureReady, JSON.parse,
\* getDb and BEGIN TRANSACTION.  A statement on a database that is not open
\* fails, and one on an open database may fail.
MigrateHandlerBegin(runs) ==
    /\ todo.handler = "ready"
    /\ LET parsed == ParseBoards(todo.stored.str)
       IN  todo' =
               IF parsed.error \/ todo.db = "none"
                  \/ todo.db = "broken" \/ ~runs
               THEN [todo EXCEPT !.handler = "rejected"]
               ELSE [todo EXCEPT !.handler = "begun",
                                 !.boards = parsed.value,
                                 !.pending = IF IsArr(parsed.value)
                                             THEN TasksOf(parsed.value.arr)
                                             ELSE <<>>]
    /\ TodoUnchanged

\* After a failure inside the transaction: ROLLBACK, and the error is thrown
rolledBack(t) == [t EXCEPT !.handler = "rejected", !.txn = {}, !.pending = <<>>]

\* Object.entries(boards) throws for null; otherwise the next INSERT OR
\* IGNORE runs, or fails
MigrateHandlerInsert(runs) ==
    /\ todo.handler = "begun"
    /\ IsNull(todo.boards) \/ todo.pending # <<>>
    /\ todo' = IF IsNull(todo.boards) \/ ~runs
               THEN rolledBack(todo)
               ELSE [todo EXCEPT !.txn = @ \cup {Head(todo.pending)},
                                 !.pending = Tail(@)]
    /\ TodoUnchanged

\* COMMIT after the last insert
MigrateHandlerCommit(runs) ==
    /\ todo.handler = "begun"
    /\ ~IsNull(todo.boards) /\ todo.pending = <<>>
    /\ todo' = IF runs
               THEN [todo EXCEPT !.handler = "resolved",
                                 !.rows = @ \cup todo.txn, !.txn = {}]
               ELSE rolledBack(todo)
    /\ TodoUnchanged

\* The mutant of storedAfterMigrate that removes the key in any case
storedAfterMigrateAlways(stored, outcome) == Null

\* The legacy key after the awaited call settled: removed when it resolved
storedAfterMigrate(stored, outcome) ==
    IF outcome = "resolved" THEN Null ELSE stored

\* migrateLocalStorage after its await: removeItem and a log, or the catch
MigrateSettled ==
    /\ todo.pc = "called"
    /\ todo.handler \in {"resolved", "rejected"}
    /\ todo' = [todo EXCEPT
                   !.pc = "done",
                   !.stored = storedAfterMigrate(@, todo.handler),
                   !.console = Append(@, IF todo.handler = "resolved"
                                         THEN "log" ELSE "error")]
    /\ TodoUnchanged

TodoNext ==
    \/ migrateLocalStorage
    \/ \E runs \in BOOLEAN : MigrateHandlerBegin(runs)
    \/ \E runs \in BOOLEAN : MigrateHandlerInsert(runs)
    \/ \E runs \in BOOLEAN : MigrateHandlerCommit(runs)
    \/ MigrateSettled

SpecTodo == TodoInit /\ [][TodoNext]_vars

-----------------------------------------------------------------------------
(* The log retention setter (index.ts)                                      *)

\* At most MaxRetentionWrites setItem cycles are in flight where the log
\* retention is followed
MaxRetentionWrites == 2

\* Math.floor(v) for a number v: NaN and the infinities are returned as is
MathFloor(v) == IF IsNum(v) THEN Num((v.num \div 100) * 100) ELSE v

\* Math.max(a, v) and Math.min(a, v) for a finite a: NaN for NaN
MathMax(a, v) ==
    IF v = NaN THEN NaN
    ELSE IF v = PosInfinity THEN v
    ELSE IF v = NegInfinity THEN Num(a)
    ELSE Num(Max2(a, v.num))

MathMin(a, v) ==
    IF v = NaN THEN NaN
    ELSE IF v = NegInfinity THEN v
    ELSE IF v = PosInfinity THEN Num(a)
    ELSE Num(Min2(a, v.num))

\* Math.min(30, Math.max(1, Math.floor(logRetentionDays)))
clampedDays(logRetentionDays) ==
    MathMin(Fixed(30), MathMax(Fixed(1), MathFloor(logRetentionDays)))

setLogRetentionDays(logRetentionDays) ==
    SetState(With(state, "logRetentionDays", clampedDays(logRetentionDays)),
             MaxRetentionWrites)

RetentionDays ==
    {Num(Fixed(0)), Num(1550), Num(Fixed(45)), Num(0 - 250), PosInfinity}

\* The settings files found at start: none, one saved with 14 days, and one
\* that holds 1000 days
RetentionBlobs ==
    {Null,
     Obj(StoreName :> StorageValue(With(partialize(getInitialState),
                                        "logRetentionDays", Num(Fixed(14))))),
     Obj(StoreName :> StorageValue(With(partialize(getInitialState),
                                        "logRetentionDays",
                                        Num(Fixed(1000)))))}

RetentionInit == StoreStart(RetentionBlobs)

RetentionNext ==
    \/ GetItemRead
    \/ Rehydrate
    \/ \E days \in RetentionDays : setLogRetentionDays(days)

SpecRetention == RetentionInit /\ [][RetentionNext]_vars

-----------------------------------------------------------------------------
(* The task database of the main process: TodoService on its one sqlite     *)
(* connection, and the IPC handlers of todo.ts in front of it.  A           *)
(* transaction belongs to the connection: between BEGIN and COMMIT or       *)
(* ROLLBACK every statement of every handler runs inside it.                *)

TaskRow(status, order) == [status |-> status, order |-> order]

\* The rows of the repo when the application starts
InitialRows == ("t1" :> TaskRow("todo", 0)) @@ ("t2" :> TaskRow("todo", 1))

TxnOps == {"reorderTasks", "migrateFromLocalStorage"}
SingleOps == {"addTask", "updateTask", "deleteTask", "moveTask"}

\* reorderTasks(repo, "todo", [t2, t1]) and the tasks of the migrated boards
ReorderedIds == <<"t2", "t1">>
MigratedIds == <<"t3", "t1">>

StatementsOf(op) == IF op = "reorderTasks" THEN ReorderedIds ELSE MigratedIds

\* UPDATE tasks SET "order" = i - 1 WHERE id = orderedIds[i] AND status = ?
reorderStatement(rows, i) ==
    LET id == ReorderedIds[i]
    IN  IF id \in DOMAIN rows /\ rows[id].status = "todo"
        THEN [rows EXCEPT ![id].order = i - 1]
        ELSE rows

\* INSERT OR IGNORE INTO tasks: a row with the id of an existing row is
\* skipped
insertOrIgnore(rows, i) ==
    LET id == MigratedIds[i]
    IN  IF id \in DOMAIN rows THEN rows
        ELSE rows @@ (id :> TaskRow("todo", 0))

\* The statement of addTask, updateTask, deleteTask and moveTask, as they are
\* called here: add t4, set the status of t1, delete t2, move t1
singleStatement(rows, op) ==
    CASE op = "addTask" -> rows @@ ("t4" :> TaskRow("todo", 2))
      [] op = "updateTask" ->
             IF "t1" \in DOMAIN rows
             THEN [rows EXCEPT !["t1"].status = "done"] ELSE rows
      [] op = "deleteTask" -> [id \in DOMAIN rows \ {"t2"} |-> rows[id]]
      [] op = "moveTask" ->
             IF "t1" \in DOMAIN rows
             THEN [rows EXCEPT !["t1"] = TaskRow("doing", 0)] ELSE rows

IdleOp == [pc |-> "idle", next |-> 1, why |-> "none"]

\* registerTodoHandlers has run: initialize() is in flight with the database
\* being opened, or has thrown before creating it
TdbInit ==
    /\ \E db \in {"opening", "none"} :
           tdb = [init |-> "running", db |-> db, rows |-> InitialRows,
                  inTxn |-> FALSE, snapshot |-> InitialRows,
                  ops |-> [op \in TxnOps \cup SingleOps |-> IdleOp]]
    /\ MigrateIdle
    /\ StoreIdle
    /\ ClampIdle /\ HostIdle /\ TodoIdle
    /\ TstoreIdle /\ KanbanIdle /\ OpenerIdle /\ TermIdle

TdbUnchanged ==
    UNCHANGED <<mvars, svars, hvars, clampCall, todo,
                tstore, kanban, opener, term>>

InitializeOutcomes(db) ==
    IF db = "none" THEN {"pathFailed"}
    ELSE {"ok", "openFailed", "createFailed", "indexFailed"}

\* initialize() settles; readyPromise resolves also when it failed
InitializeSettles(outcome) ==
    /\ tdb.init = "running"
    /\ outcome \in InitializeOutcomes(tdb.db)
    /\ tdb' = [tdb EXCEPT
                  !.init = IF outcome = "ok" THEN "ok" ELSE "failed",
                  !.db = CASE outcome \in {"ok", "indexFailed"} -> "open"
                           [] outcome = "openFailed" -> "broken"
                           [] outcome = "createFailed" -> "notable"
                           [] outcome = "pathFailed" -> "none"]
    /\ TdbUnchanged

\* An IPC call arrives: the handler awaits ensureReady()
IpcCall(op) ==
    /\ tdb.ops[op].pc = "idle"
    /\ tdb' = [tdb EXCEPT !.ops[op].pc = "waiting"]
    /\ TdbUnchanged

\* The mutant of settled in which ensureReady does not wait
settledAlways(t) == TRUE

\* await readyPromise: initialize().catch(...) has settled
settled(t) == t.init # "running"

\* Whether a statement on the tasks table, and whether BEGIN, can run
TableUsable(t) == t.db = "open"
ConnectionUsable(t) == t.db \in {"open", "notable"}

Rejected(op, why) ==
    [tdb EXCEPT !.ops[op].pc = "rejected", !.ops[op].why = why]

\* addTask, updateTask, deleteTask, moveTask: getDb and one statement
RunSingle(op) ==
    /\ op \in SingleOps
    /\ tdb.ops[op].pc = "waiting"
    /\ settled(tdb)
    /\ tdb' = IF ~TableUsable(tdb) THEN Rejected(op, "database")
              ELSE [tdb EXCEPT !.rows = singleStatement(@, op),
                               !.ops[op].pc = "resolved"]
    /\ TdbUnchanged

\* reorderTasks, migrateFromLocalStorage: getDb and BEGIN TRANSACTION, which
\* fails inside a transaction
BeginTransaction(op) ==
    /\ op \in TxnOps
    /\ tdb.ops[op].pc = "waiting"
    /\ settled(tdb)
    /\ tdb' = IF ~ConnectionUsable(tdb) THEN Rejected(op, "database")
              ELSE IF tdb.inTxn THEN Rejected(op, "nested")
              ELSE [tdb EXCEPT !.inTxn = TRUE, !.snapshot = tdb.rows,
                               !.ops[op].pc = "begun"]
    /\ TdbUnchanged

\* ROLLBACK, its own failure ignored, and the error is thrown
RolledBack(op, why) ==
    [Rejected(op, why) EXCEPT
        !.rows = IF tdb.inTxn THEN tdb.snapshot ELSE @,
        !.inTxn = FALSE]

\* The next UPDATE or INSERT OR IGNORE of the loop runs, or fails
TransactionStatement(op, runs) ==
    /\ op \in TxnOps
    /\ tdb.ops[op].pc = "begun"
    /\ tdb.ops[op].next <= Len(StatementsOf(op))
    /\ tdb' = IF runs /\ TableUsable(tdb)
              THEN [tdb EXCEPT
                       !.rows = IF op = "reorderTasks"
                                THEN reorderStatement(@, tdb.ops[op].next)
                                ELSE insertOrIgnore(@, tdb.ops[op].next),
                       !.ops[op].next = @ + 1]
              ELSE RolledBack(op, "statement")
    /\ TdbUnchanged

\* COMMIT after the loop
TransactionCommit(op) ==
    /\ op \in TxnOps
    /\ tdb.ops[op].pc = "begun"
    /\ tdb.ops[op].next > Len(StatementsOf(op))
    /\ tdb' = IF tdb.inTxn
              THEN [tdb EXCEPT !.inTxn = FALSE, !.ops[op].pc = "resolved"]
              ELSE RolledBack(op, "commit")
    /\ TdbUnchanged

TdbNext ==
    \/ \E outcome \in {"ok", "openFailed", "createFailed", "indexFailed",
                        "pathFailed"} : InitializeSettles(outcome)
    \/ \E op \in TxnOps \cup SingleOps : IpcCall(op)
    \/ \E op \in SingleOps : RunSingle(op)
    \/ \E op \in TxnOps : BeginTransaction(op)
    \/ \E op \in TxnOps, runs \in BOOLEAN : TransactionStatement(op, runs)
    \/ \E op \in TxnOps : TransactionCommit(op)

SpecTodoDb == TdbInit /\ [][TdbNext]_vars

-----------------------------------------------------------------------------
(* The todo store of the renderer (useTodoStore): the in-memory list of one *)
(* repo, updated optimistically, the IPC requests it sends to the main      *)
(* process, the rows there, and the replies of getTasks on their way back.  *)

MaxTodoCalls == 2
MaxLoads == 2

TaskStatuses == {"todo", "in-progress", "done"}

Task(id, status, order) == [id |-> id, status |-> status, order |-> order]

\* The rows of the repo in the database when the renderer starts
StoredTasks == <<Task("t1", "todo", 0), Task("t2", "in-progress", 0)>>

\* crypto.randomUUID(): an id no task had before
FreshId(n) == IF n = 0 THEN "n1" ELSE IF n = 1 THEN "n2" ELSE
              IF n = 2 THEN "n3" ELSE IF n = 3 THEN "n4" ELSE "n5"

IdsOf(tasks) == {tasks[i].id : i \in DOMAIN tasks}

ColumnOf(tasks, status) == {tasks[i] : i \in {j \in DOMAIN tasks : tasks[j].status = status}}

\* tasksInColumn.reduce((max, t) => Math.max(max, t.order), -1) + 1
nextOrder(tasks, status) ==
    LET orders == {t.order : t \in ColumnOf(tasks, status)}
    IN  IF orders = {} THEN 0
        ELSE (CHOOSE o \in orders : \A p \in orders : p <= o) + 1

\* The list updates of the store's set() calls; the main process applies the
\* same change to its rows with one statement
addedTo(tasks, task) == Append(tasks, task)

updatedIn(tasks, id, status) ==
    [i \in DOMAIN tasks |->
        IF tasks[i].id = id THEN [tasks[i] EXCEPT !.status = status]
        ELSE tasks[i]]

deletedFrom(tasks, id) ==
    LET Kept(t) == t.id # id IN SelectSeq(tasks, Kept)

movedIn(tasks, id, status, order) ==
    [i \in DOMAIN tasks |->
        IF tasks[i].id = id THEN Task(id, status, order) ELSE tasks[i]]

reorderedIn(tasks, status, orderedIds) ==
    [i \in DOMAIN tasks |->
        IF tasks[i].status = status
           /\ \E k \in DOMAIN orderedIds : orderedIds[k] = tasks[i].id
        THEN [tasks[i] EXCEPT
                 !.order = (CHOOSE k \in DOMAIN orderedIds :
                                orderedIds[k] = tasks[i].id) - 1]
        ELSE tasks[i]]

\* The orderings of the ids of one column
Orderings(ids) ==
    {p \in [1..Cardinality(ids) -> ids] :
        \A i, j \in DOMAIN p : p[i] = p[j] => i = j}

\* create(): tasks {} and _loaded empty; nothing sent yet
TstoreInit ==
    /\ tstore = [present |-> FALSE, tasks |-> <<>>, loaded |-> FALSE,
                 ipc |-> <<>>, rows |-> StoredTasks, replies |-> <<>>,
                 returned |-> {}, deleted |-> {}, calls |-> 0, loads |-> 0]
    /\ MigrateIdle
    /\ StoreIdle
    /\ ClampIdle /\ HostIdle /\ TodoIdle
    /\ TdbIdle /\ KanbanIdle /\ OpenerIdle /\ TermIdle

TstoreUnchanged ==
    UNCHANGED <<mvars, svars, hvars, clampCall, todo,
                tdb, kanban, opener, term>>

\* loadTasks up to the await of getTasks
loadTasks ==
    /\ tstore.loads < MaxLoads
    /\ ~tstore.loaded
    /\ tstore' = [tstore EXCEPT !.loads = @ + 1,
                                !.ipc = Append(@, [op |-> "getTasks"])]
    /\ TstoreUnchanged

\* The main process handles the next request of the renderer
MainHandles ==
    /\ tstore.ipc # <<>>
    /\ LET req == Head(tstore.ipc)
       IN  tstore' = [tstore EXCEPT
              !.ipc = Tail(@),
              !.replies = IF req.op = "getTasks" THEN Append(@, tstore.rows)
                          ELSE @,
              !.rows =
                 CASE req.op = "getTasks" -> @
                   [] req.op = "addTask" -> addedTo(@, req.task)
                   [] req.op = "updateTask" -> updatedIn(@, req.id, req.status)
                   [] req.op = "deleteTask" -> deletedFrom(@, req.id)
                   [] req.op = "moveTask" ->
                          movedIn(@, req.id, req.status, req.order)
                   [] req.op = "reorderTasks" ->
                          reorderedIn(@, req.status, req.ids)]
    /\ TstoreUnchanged

\* tasks: { ...state.tasks, [key]: tasks }
loadedList(tasks, reply) == reply

\* loadTasks after the await: the result replaces the list of the repo
LoadResolves ==
    /\ tstore.replies # <<>>
    /\ tstore' = [tstore EXCEPT
                     !.replies = Tail(@),
                     !.present = TRUE,
                     !.tasks = loadedList(@, Head(tstore.replies)),
                     !.loaded = TRUE]
    /\ TstoreUnchanged

StoreCall(tasks, req) ==
    [tstore EXCEPT !.present = TRUE, !.tasks = tasks,
                   !.ipc = Append(@, req), !.calls = @ + 1]

addTask(status) ==
    /\ tstore.calls < MaxTodoCalls
    /\ LET newTask == Task(FreshId(Cardinality(tstore.returned)), status,
                           nextOrder(tstore.tasks, status))
       IN  tstore' = [StoreCall(addedTo(tstore.tasks, newTask),
                                [op |-> "addTask", task |-> newTask])
                         EXCEPT !.returned = @ \cup {newTask.id}]
    /\ TstoreUnchanged

updateTask(id, status) ==
    /\ tstore.calls < MaxTodoCalls
    /\ tstore.present
    /\ tstore' = StoreCall(updatedIn(tstore.tasks, id, status),
                           [op |-> "updateTask", id |-> id, status |-> status])
    /\ TstoreUnchanged

deleteTask(id) ==
    /\ tstore.calls < MaxTodoCalls
    /\ tstore.present
    /\ tstore' = [StoreCall(deletedFrom(tstore.tasks, id),
                            [op |-> "deleteTask", id |-> id])
                     EXCEPT !.deleted = @ \cup {id}]
    /\ TstoreUnchanged

moveTask(id, newStatus, newOrder) ==
    /\ tstore.calls < MaxTodoCalls
    /\ tstore.present
    /\ tstore' = StoreCall(movedIn(tstore.tasks, id, newStatus, newOrder),
                           [op |-> "moveTask", id |-> id,
                            status |-> newStatus, order |-> newOrder])
    /\ TstoreUnchanged

reorderTasks(status, orderedIds) ==
    /\ tstore.calls < MaxTodoCalls
    /\ tstore.present
    /\ tstore' = StoreCall(reorderedIn(tstore.tasks, status, orderedIds),
                           [op |-> "reorderTasks", status |-> status,
                            ids |-> orderedIds])
    /\ TstoreUnchanged

\* The callers: the task dialog, handleLaunchWithAgent and the kanban board
TstoreNext ==
    \/ loadTasks
    \/ MainHandles
    \/ LoadResolves
    \/ \E status \in TaskStatuses : addTask(status)
    \/ \E id \in IdsOf(tstore.tasks), status \in TaskStatuses :
           updateTask(id, status)
    \/ \E id \in IdsOf(tstore.tasks) : deleteTask(id)
    \/ \E id \in IdsOf(tstore.tasks), status \in TaskStatuses :
           moveTask(id, status, nextOrder(tstore.tasks, status))
    \/ \E status \in TaskStatuses :
           \E ids \in Orderings(
                   {t.id : t \in ColumnOf(tstore.tasks, status)}) :
               /\ ids # <<>>
               /\ reorderTasks(status, ids)

SpecTodoStore == TstoreInit /\ [][TstoreNext]_vars

-----------------------------------------------------------------------------
(* The kanban board: the drag handlers of KanbanBoard.tsx over the tasks of *)
(* the store, with the calls to the store they issue.                       *)

MaxDrags == 2

NoId == "none"
NoMove == [taskId |-> NoId, fromStatus |-> NoId, toStatus |-> NoId]

\* The boards the drags start from: orders need not be dense after deletes
BoardTasks ==
    {<<Task("t1", "todo", 0), Task("t2", "todo", 1), Task("t3", "done", 2)>>,
     <<Task("t1", "todo", 0), Task("t2", "in-progress", 0),
       Task("t3", "in-progress", 3)>>}

\* displayTasks: the pending move merged into the tasks
displayTasks(tasks, pendingMove) ==
    IF pendingMove = NoMove THEN tasks
    ELSE [i \in DOMAIN tasks |->
             IF tasks[i].id = pendingMove.taskId
             THEN [tasks[i] EXCEPT !.status = pendingMove.toStatus]
             ELSE tasks[i]]

RECURSIVE sortByOrder(_)
\* grouped[status].sort((a, b) => a.order - b.order), a stable sort
sortByOrder(s) ==
    IF s = <<>> THEN <<>>
    ELSE LET i == CHOOSE i \in DOMAIN s : \A j \in DOMAIN s :
                      \/ s[i].order < s[j].order
                      \/ s[i].order = s[j].order /\ i <= j
         IN  <<s[i]>> \o sortByOrder(RemoveAt(s, i))

tasksByStatus(displayed, status) ==
    LET InColumn(t) == t.status = status
    IN  sortByOrder(SelectSeq(displayed, InColumn))

\* findColumn: the status of the task with this id, or the column id itself
findColumn(displayed, id) ==
    IF id \in IdsOf(displayed)
    THEN (CHOOSE t \in {displayed[i] : i \in DOMAIN displayed} : t.id = id).status
    ELSE IF id \in TaskStatuses THEN id ELSE NoId

\* arrayMove of @dnd-kit/sortable
arrayMove(items, from, to) ==
    LET rest == RemoveAt(items, from)
    IN  SubSeq(rest, 1, to - 1) \o <<items[from]>> \o SubSeq(rest, to, Len(rest))

IndexOf(items, id) ==
    IF id \in IdsOf(items) THEN CHOOSE i \in DOMAIN items : items[i].id = id
    ELSE 0

KanbanStart(boards) ==
    /\ \E tasks \in boards :
           kanban = [tasks |-> tasks, activeId |-> NoId,
                     pendingMove |-> NoMove, snapshot |-> <<>>,
                     issued |-> <<>>, event |-> "none", over |-> NoId,
                     drags |-> 0]
    /\ MigrateIdle
    /\ StoreIdle
    /\ ClampIdle /\ HostIdle /\ TodoIdle
    /\ TdbIdle /\ TstoreIdle /\ OpenerIdle /\ TermIdle

KanbanInit == KanbanStart(BoardTasks)

KanbanUnchanged ==
    UNCHANGED <<mvars, svars, hvars, clampCall, todo,
                tdb, tstore, opener, term>>

handleDragStart(active) ==
    /\ kanban.activeId = NoId
    /\ kanban.drags < MaxDrags
    /\ kanban' = [kanban EXCEPT !.activeId = active,
                                !.snapshot = kanban.tasks,
                                !.issued = <<>>,
                                !.event = "start", !.over = NoId,
                                !.drags = @ + 1]
    /\ KanbanUnchanged

handleDragOver(over) ==
    /\ kanban.activeId # NoId
    /\ LET displayed == displayTasks(kanban.tasks, kanban.pendingMove)
           activeColumn == findColumn(displayed, kanban.activeId)
           overColumn == findColumn(displayed, over)
           originalStatus == findColumn(kanban.snapshot, kanban.activeId)
       IN  kanban' = [kanban EXCEPT
              !.event = "over", !.over = over,
              !.pendingMove =
                 IF \/ over = NoId
                    \/ activeColumn = NoId
                    \/ overColumn = NoId
                    \/ activeColumn = overColumn
                 THEN @
                 ELSE [taskId |-> kanban.activeId,
                       fromStatus |-> originalStatus,
                       toStatus |-> overColumn]]
    /\ KanbanUnchanged

\* The mutant of dropOrder that takes the length of the column
dropOrderLength(overItems) == Len(overItems)

\* overItems.length > 0 ? overItems[overItems.length - 1].order + 1 : 0
dropOrder(overItems) ==
    IF Len(overItems) > 0 THEN overItems[Len(overItems)].order + 1 ELSE 0

\* The calls of handleDragEnd to the store, and the tasks after them
dragEndCalls(k, over) ==
    LET displayed == displayTasks(k.tasks, k.pendingMove)
        activeColumn == findColumn(displayed, k.activeId)
        overColumn == findColumn(displayed, over)
        items == tasksByStatus(displayed, activeColumn)
        oldIndex == IndexOf(items, k.activeId)
        newIndex == IndexOf(items, over)
    IN  IF over = NoId THEN <<>>
        ELSE IF k.pendingMove # NoMove /\ k.pendingMove.taskId = k.activeId
        THEN <<[op |-> "moveTask", id |-> k.pendingMove.taskId,
                status |-> k.pendingMove.toStatus,
                order |-> dropOrder(tasksByStatus(displayed,
                                                  k.pendingMove.toStatus))]>>
        ELSE IF activeColumn = NoId \/ overColumn = NoId THEN <<>>
        ELSE IF activeColumn = overColumn /\ k.activeId # over
                /\ oldIndex # 0 /\ newIndex # 0
        THEN <<[op |-> "reorderTasks", status |-> activeColumn,
                ids |-> [i \in DOMAIN items |->
                            arrayMove(items, oldIndex, newIndex)[i].id]]>>
        ELSE <<>>

afterStoreCall(tasks, call) ==
    IF call.op = "moveTask"
    THEN movedIn(tasks, call.id, call.status, call.order)
    ELSE reorderedIn(tasks, call.status, call.ids)

handleDragEnd(over) ==
    /\ kanban.activeId # NoId
    /\ LET calls == dragEndCalls(kanban, over)
       IN  kanban' = [kanban EXCEPT
              !.activeId = NoId,
              !.pendingMove = NoMove,
              !.snapshot = <<>>,
              !.event = "end", !.over = over,
              !.issued = @ \o calls,
              !.tasks = IF calls = <<>> THEN @
                        ELSE afterStoreCall(@, calls[1])]
    /\ KanbanUnchanged

handleDragCancel ==
    /\ kanban.activeId # NoId
    /\ kanban' = [kanban EXCEPT !.activeId = NoId,
                                !.pendingMove = NoMove,
                                !.snapshot = <<>>,
                                !.event = "cancel", !.over = NoId]
    /\ KanbanUnchanged

\* What the pointer can be over: nothing, a task, a column
DropTargets == {NoId} \cup IdsOf(kanban.tasks) \cup TaskStatuses

KanbanNext ==
    \/ \E active \in IdsOf(kanban.tasks) : handleDragStart(active)
    \/ \E over \in DropTargets : handleDragOver(over)
    \/ \E over \in DropTargets : handleDragEnd(over)
    \/ handleDragCancel

SpecKanban == KanbanInit /\ [][KanbanNext]_vars

-----------------------------------------------------------------------------
(* Open-path requests of the main process: the command line, open-url and   *)
(* second-instance events, pendingOpenPath and the message to the renderer. *)

MaxOpenRequests == 3

NoPath == "none"

\* The path of the n-th request after the start; each request names another
RequestPath(n) == <<"p1", "p2", "p3", "p4", "p5">>[n]

Request(path, from) == [path |-> path, from |-> from]

\* The number of requests received through events
EventsReceived(o) ==
    Cardinality({i \in DOMAIN o.received : o.received[i].from # "argv"})

\* The process has started: not ready, no window, and the command line has an
\* --open-path argument or none
OpenerInit ==
    /\ \E argvPath \in {NoPath, "p0"} :
           opener = [phase |-> "starting", argvPath |-> argvPath,
                     pendingOpenPath |-> NoPath,
                     received |-> <<>>, sent |-> <<>>]
    /\ MigrateIdle
    /\ StoreIdle
    /\ ClampIdle /\ HostIdle /\ TodoIdle
    /\ TdbIdle /\ TstoreIdle /\ KanbanIdle /\ TermIdle

OpenerUnchanged ==
    UNCHANGED <<mvars, svars, hvars, clampCall, todo,
                tdb, tstore, kanban, term>>

\* sendOpenPath: to the renderer when a window exists and is not loading
sendOpenPath(o, path) ==
    IF o.phase = "loaded"
    THEN [o EXCEPT !.sent = Append(@, path)]
    ELSE [o EXCEPT !.pendingOpenPath = path]

\* app.whenReady() resolves; the continuation awaits init()
AppReady ==
    /\ opener.phase = "starting"
    /\ opener' = [opener EXCEPT !.phase = "initializing"]
    /\ OpenerUnchanged

\* After init(): the window is created and starts loading, the
\* did-finish-load handler is registered, the command line is handled
WindowCreated ==
    /\ opener.phase = "initializing"
    /\ LET loading == [opener EXCEPT !.phase = "loading"]
       IN  opener' = IF opener.argvPath = NoPath THEN loading
                     ELSE [sendOpenPath(loading, opener.argvPath) EXCEPT
                              !.received =
                                 Append(@, Request(opener.argvPath, "argv"))]
    /\ OpenerUnchanged

\* did-finish-load, once
DidFinishLoad ==
    /\ opener.phase = "loading"
    /\ opener' = [opener EXCEPT
                     !.phase = "loaded",
                     !.sent = IF opener.pendingOpenPath # NoPath
                              THEN Append(@, opener.pendingOpenPath) ELSE @,
                     !.pendingOpenPath = NoPath]
    /\ OpenerUnchanged

\* open-url (macOS), also before the app is ready
OpenUrl ==
    /\ EventsReceived(opener) < MaxOpenRequests
    /\ LET path == RequestPath(EventsReceived(opener) + 1)
           got == [opener EXCEPT
                      !.received = Append(@, Request(path, "open-url"))]
       IN  opener' = IF opener.phase # "starting" THEN sendOpenPath(got, path)
                     ELSE [got EXCEPT !.pendingOpenPath = path]
    /\ OpenerUnchanged

\* second-instance with a path on its command line; the event is emitted
\* once the app is ready
SecondInstance ==
    /\ opener.phase # "starting"
    /\ EventsReceived(opener) < MaxOpenRequests
    /\ LET path == RequestPath(EventsReceived(opener) + 1)
       IN  opener' = sendOpenPath(
                        [opener EXCEPT
                            !.received =
                               Append(@, Request(path, "second-instance"))],
                        path)
    /\ OpenerUnchanged

OpenerNext ==
    \/ AppReady
    \/ WindowCreated
    \/ DidFinishLoad
    \/ OpenUrl
    \/ SecondInstance

SpecOpener == OpenerInit /\ [][OpenerNext]_vars

-----------------------------------------------------------------------------
(* Terminals of the renderer: useTerminal and the terminal store.  The main *)
(* process creates the terminal, answers the create call with its id and    *)
(* sends an exit event when the terminal ends.                              *)

MaxTerminals == 2

TerminalId(n) == <<"pty1", "pty2", "pty3">>[n]

\* create(): no sessions, no active session
TermInit ==
    /\ term = [sessions |-> <<>>, activeSessionId |-> NoId,
               created |-> <<>>, resolved |-> {}, exiting |-> {},
               exited |-> {}, destroying |-> {}]
    /\ MigrateIdle
    /\ StoreIdle
    /\ ClampIdle /\ HostIdle /\ TodoIdle
    /\ TdbIdle /\ TstoreIdle /\ KanbanIdle /\ OpenerIdle

TermUnchanged ==
    UNCHANGED <<mvars, svars, hvars, clampCall, todo,
                tdb, tstore, kanban, opener>>

addSession(t, id) ==
    [t EXCEPT !.sessions = Append(@, id), !.activeSessionId = id]

removeSession(t, id) ==
    LET Other(s) == s # id
        others == SelectSeq(t.sessions, Other)
    IN  [t EXCEPT
            !.sessions = others,
            !.activeSessionId =
                IF @ = id
                THEN (IF others = <<>> THEN NoId ELSE others[1])
                ELSE @]

\* createTerminal up to the await: the main process creates the terminal
createTerminal ==
    /\ Len(term.created) < MaxTerminals
    /\ term' = [term EXCEPT
                   !.created = Append(@, TerminalId(Len(term.created) + 1))]
    /\ TermUnchanged

\* createTerminal after the await: addSession with the id
CreateResolves(id) ==
    /\ id \notin term.resolved
    /\ term' = [addSession(term, id) EXCEPT !.resolved = @ \cup {id}]
    /\ TermUnchanged

\* The terminal ends in the main process, which sends the exit event
TerminalExits(id) ==
    /\ id \notin term.exiting \cup term.exited
    /\ term' = [term EXCEPT !.exiting = @ \cup {id}]
    /\ TermUnchanged

\* The onExit listener: removeSession(id)
onExit(id) ==
    /\ id \in term.exiting
    /\ term' = [removeSession(term, id) EXCEPT
                   !.exiting = @ \ {id}, !.exited = @ \cup {id}]
    /\ TermUnchanged

\* destroyTerminal up to the await of terminal.destroy
destroyTerminal(id) ==
    /\ id \notin term.destroying
    /\ term' = [term EXCEPT !.destroying = @ \cup {id}]
    /\ TermUnchanged

\* destroyTerminal after the await: removeSession(id)
DestroyResolves(id) ==
    /\ id \in term.destroying
    /\ term' = [removeSession(term, id) EXCEPT !.destroying = @ \ {id}]
    /\ TermUnchanged

setActiveSession(id) ==
    /\ term.activeSessionId # id
    /\ term' = [term EXCEPT !.activeSessionId = id]
    /\ TermUnchanged

CreatedIds == {term.created[i] : i \in DOMAIN term.created}

TermNext ==
    \/ createTerminal
    \/ \E id \in CreatedIds : CreateResolves(id)
    \/ \E id \in CreatedIds : TerminalExits(id)
    \/ \E id \in CreatedIds : onExit(id)
    \/ \E i \in DOMAIN term.sessions : destroyTerminal(term.sessions[i])
    \/ \E id \in CreatedIds : DestroyResolves(id)
    \/ \E i \in DOMAIN term.sessions : setActiveSession(term.sessions[i])

SpecTerminal == TermInit /\ [][TermNext]_vars

----------------------------------------------------------------------------
(* The agent setters (index.ts).  agentSettings is an object whose property *)
(* order matters: removeCustomAgent promotes the first enabled entry.       *)

\* {...o, [k]: v} for an ordered object o: a new property comes last
OWith(o, k, v) ==
    OrderedObj(With(o.obj, k, v),
               IF k \in DOMAIN o.obj THEN o.keys ELSE Append(o.keys, k))

\* o after delete o[k]
OWithout(o, k) ==
    OrderedObj(Without(o.obj, k), SelectSeq(o.keys, LAMBDA j : j # k))

\* A CustomAgent
CustomAgent(id) == Obj([id |-> Str(id), name |-> Str(id), command |-> Str(id)])

AgentWrite(agentSettings) ==
    SetState(With(state, "agentSettings", agentSettings), MaxAgentWrites)

setAgentEnabled(agentId, enabled) ==
    LET current == state.agentSettings
    IN  AgentWrite(OWith(current, agentId,
                         Obj(With(Spread(Prop(current, agentId)),
                                  "enabled", Bool(enabled)))))

\* updated of setAgentDefault: isDefault of every entry is id === agentId
defaultOnly(current, agentId) ==
    OrderedObj([id \in DOMAIN current.obj |->
                   Obj(With(Spread(current.obj[id]),
                            "isDefault", Bool(id = agentId)))],
               current.keys)

setAgentDefault(agentId) ==
    AgentWrite(defaultOnly(state.agentSettings, agentId))

setAgentCustomConfig(agentId, config) ==
    LET current == state.agentSettings
    IN  AgentWrite(
            OWith(current, agentId,
                  Obj(Merge(Spread(Prop(current, agentId)),
                            [customPath |->
                                 OrElse(config.customPath, Undefined),
                             customArgs |->
                                 OrElse(config.customArgs, Undefined)]))))

addCustomAgent(agent) ==
    SetState(
        Merge(state,
              [customAgents |-> Arr(Append(state.customAgents.arr, agent)),
               agentSettings |->
                   OWith(state.agentSettings, agent.obj.id.str,
                         AgentConfig(TRUE, FALSE))]),
        MaxAgentWrites)

\* The mutant of promoteFirstEnabled that promotes whether or not the removed
\* agent was the default
promoteFirstEnabledAlways(newAgentSettings, wasDefault) ==
    LET enabledKeys ==
            SelectSeq(newAgentSettings.keys,
                      LAMBDA k : Truthy(Prop(newAgentSettings.obj[k], "enabled")))
    IN  IF enabledKeys # <<>>
        THEN OWith(newAgentSettings, Head(enabledKeys),
                   Obj(With(Spread(newAgentSettings.obj[Head(enabledKeys)]),
                            "isDefault", Bool(TRUE))))
        ELSE newAgentSettings

\* removeCustomAgent, after the delete: when the removed agent was the
\* default, the first enabled entry becomes the default
promoteFirstEnabled(newAgentSettings, wasDefault) ==
    LET enabledKeys ==
            SelectSeq(newAgentSettings.keys,
                      LAMBDA k : Truthy(Prop(newAgentSettings.obj[k], "enabled")))
    IN  IF Truthy(wasDefault) /\ enabledKeys # <<>>
        THEN OWith(newAgentSettings, Head(enabledKeys),
                   Obj(With(Spread(newAgentSettings.obj[Head(enabledKeys)]),
                            "isDefault", Bool(TRUE))))
        ELSE newAgentSettings

removeCustomAgent(id) ==
    LET agentSettings == state.agentSettings
        wasDefault == Prop(Prop(agentSettings, id), "isDefault")
    IN  SetState(
            Merge(state,
                  [customAgents |->
                       Arr(SelectSeq(state.customAgents.arr,
                                     LAMBDA a : a.obj.id.str # id)),
                   agentSettings |->
                       promoteFirstEnabled(OWithout(agentSettings, id),
                                           wasDefault)]),
            MaxAgentWrites)

\* The calls of the agent setters that are followed
CustomAgentIds == {"custom1"}

EnabledCalls ==
    {<<"claude", FALSE>>, <<"codex", TRUE>>, <<"custom1", FALSE>>}

DefaultCalls == {"claude", "codex", "custom1"}

CustomConfigs == {[customPath |-> Str("/opt/codex"), customArgs |-> Str("")]}

\* A first run: no settings file, so that the agent table is the default one
AgentsInit == StoreInit /\ disk = Null

AgentsNext ==
    \/ GetItemRead
    \/ Rehydrate
    \/ \E call \in EnabledCalls : setAgentEnabled(call[1], call[2])
    \/ \E agentId \in DefaultCalls : setAgentDefault(agentId)
    \/ \E config \in CustomConfigs : setAgentCustomConfig("codex", config)
    \/ \E id \in CustomAgentIds : addCustomAgent(CustomAgent(id))
    \/ \E id \in CustomAgentIds : removeCustomAgent(id)

SpecAgents == AgentsInit /\ [][AgentsNext]_vars

\* The removal of custom agents from the agent tables that earlier sessions
\* saved: custom1 and custom2 were added and one agent made the default, with
\* claude enabled or not
SavedAgentTable(defaultId, claudeEnabled, ids) ==
    LET added ==
            IF Len(ids) = 2
            THEN OWith(OWith(defaultAgentSettings, ids[1],
                             AgentConfig(TRUE, FALSE)),
                       ids[2], AgentConfig(TRUE, FALSE))
            ELSE OWith(defaultAgentSettings, ids[1], AgentConfig(TRUE, FALSE))
        table == defaultOnly(added, defaultId)
    IN  Merge(partialize(getInitialState),
              [customAgents |-> Arr([i \in DOMAIN ids |-> CustomAgent(ids[i])]),
               agentSettings |->
                   OWith(table, "claude",
                         Obj(With(Spread(table.obj.claude), "enabled",
                                  Bool(claudeEnabled))))])

AgentBlobs ==
    {Obj(StoreName :> StorageValue(SavedAgentTable(d, e, ids))) :
         d \in {"claude", "custom1"}, e \in BOOLEAN,
         ids \in {<<"custom1">>, <<"custom1", "custom2">>,
                  <<"custom2", "custom1">>}}

RemovedAgentIds == {"custom1", "custom2"}

RemoveNext ==
    \/ GetItemRead
    \/ Rehydrate
    \/ \E id \in RemovedAgentIds : removeCustomAgent(id)

SpecRemove == StoreStart(AgentBlobs) /\ [][RemoveNext]_vars




----------------------------------------------------------------------------
(* Declared types and bounds of the snapshot (types.ts)                     *)

Modifiers == {"ctrl", "alt", "shift", "meta"}

\* TerminalKeybinding
IsKeybinding(v) ==
    /\ IsObj(v)
    /\ "key" \in DOMAIN v.obj
    /\ IsStr(v.obj.key)
    /\ \A k \in DOMAIN v.obj \ {"key"} : k \in Modifiers /\ IsBool(v.obj[k])

KeybindingGroups ==
    {"xtermKeybindings", "mainTabKeybindings", "sourceControlKeybindings",
     "searchKeybindings", "globalKeybindings", "workspaceKeybindings"}

\* v has the shape of the default d: the same type, and for a record every
\* field of d with a value of d's shape (a null default is a nullable object)
RECURSIVE Conforms(_, _)
Conforms(v, d) ==
    IF IsObj(d)
    THEN /\ IsObj(v)
         /\ \A k \in DOMAIN d.obj :
                k \in DOMAIN v.obj /\ Conforms(v.obj[k], d.obj[k])
    ELSE IF IsNull(d) THEN IsNull(v) \/ IsObj(v)
    ELSE DOMAIN v = DOMAIN d

\* AgentSettings = Record<string, AgentConfig>
IsAgentSettings(v) ==
    /\ IsObj(v)
    /\ \A a \in DOMAIN v.obj :
           /\ IsBool(Prop(v.obj[a], "enabled"))
           /\ IsBool(Prop(v.obj[a], "isDefault"))

Between(v, lo, hi) == IsNum(v) /\ lo <= v.num /\ v.num <= hi

AutoPopupModes == {Str("always"), Str("hideWhileRunning"), Str("manual")}

TerminalRenderers == {Str("dom"), Str("webgl")}

FieldConforms(k, v) ==
    CASE k \in KeybindingGroups ->
             /\ IsObj(v)
             /\ \A f \in DOMAIN getInitialState[k].obj :
                    f \in DOMAIN v.obj /\ IsKeybinding(v.obj[f])
      [] k = "agentSettings" -> IsAgentSettings(v)
      [] k = "claudeCodeIntegration" ->
             /\ Conforms(v, getInitialState[k])
             /\ v.obj.enhancedInputAutoPopup \in AutoPopupModes
      [] k = "terminalRenderer" -> v \in TerminalRenderers
      [] k = "backgroundSourceType" -> v \in sourceTypes
      [] k = "backgroundSizeMode" -> v \in sizeModes
      [] k = "backgroundOpacity" -> Between(v, Fixed(0), Fixed(1))
      [] k = "backgroundBlur" -> Between(v, Fixed(0), Fixed(20))
      [] k = "backgroundBrightness" -> Between(v, Fixed(0), Fixed(2))
      [] k = "backgroundSaturation" -> Between(v, Fixed(0), Fixed(2))
      [] k = "backgroundRandomInterval" -> Between(v, Fixed(5), Fixed(86400))
      [] k = "logRetentionDays" -> Between(v, Fixed(1), Fixed(30))
      [] OTHER -> Conforms(v, getInitialState[k])

SnapshotConforms(s) ==
    \A k \in DOMAIN getInitialState : k \in DOMAIN s /\ FieldConforms(k, s[k])

----------------------------------------------------------------------------
(* Claims about migrateSettings, checked under SpecMigrate                  *)

\* The property map of the persisted state ({} when it is absent or null)
P == Spread(persistedState)

Migrated == mpc # "start"

\* C1: for every persisted snapshot, every declared field of the migrated
\* snapshot is present and has a value of its declared type within its
\* declared bounds.
C1_MigratedSnapshotConforms == Migrated => SnapshotConforms(merged)

\* C2: migrating the migrated snapshot again changes nothing.
C2_MigrationIdempotent == mpc = "remerged" => remerged = merged

\* C2 witness: a snapshot with a legacy boolean enhancedInputAutoPopup and a
\* legacy keybinding field has been migrated twice
C2_Witness ==
    /\ mpc = "remerged"
    /\ "terminalKeybindings" \in DOMAIN P
    /\ IsBool(Prop(Get(P, "claudeCodeIntegration"), "enhancedInputAutoPopup"))
    /\ merged # getInitialState

\* C7: every agent with a detection entry in the migrated snapshot has an
\* entry with enabled = true in the agentSettings of the same snapshot.
C7_DetectionOnlyForEnabledAgents ==
    Migrated =>
        \A a \in DOMAIN merged.agentDetectionStatus.obj :
            Prop(Prop(merged.agentSettings, a), "enabled") = Bool(TRUE)

PersistedAutoPopup ==
    Prop(Get(P, "claudeCodeIntegration"), "enhancedInputAutoPopup")

MergedDomains ==
    KeybindingGroups \cup
    {"editorSettings", "claudeCodeIntegration", "commitMessageGenerator",
     "codeReview", "branchNameGenerator", "hapiSettings", "quickTerminal",
     "proxySettings", "shellConfig", "agentSettings"}

\* The fields of claudeCodeIntegration that the migration transforms
TransformedFields == {"enhancedInputAutoPopup", "statusLineFields"}

\* C9: for every domain record of which the persisted snapshot holds a partial
\* record, each field of the migrated record comes from the persisted record
\* when that has it and from the default otherwise (the two fields of
\* claudeCodeIntegration that the migration transforms left aside).
C9_DomainRecordsMerged ==
    Migrated =>
        \A d \in MergedDomains :
            (d \in DOMAIN P /\ IsObj(P[d])) =>
                \A f \in (DOMAIN P[d].obj \cup DOMAIN getInitialState[d].obj)
                             \ TransformedFields :
                    Prop(merged[d], f) =
                        IF f \in DOMAIN P[d].obj THEN P[d].obj[f]
                        ELSE getInitialState[d].obj[f]

\* C10: the migrated claudeCodeIntegration never has enhancedInputAutoPopup =
\* 'hideWhileRunning' with stopHookEnabled = false; when the persisted record
\* has stopHookEnabled = false and 'hideWhileRunning' comes from the persisted
\* value, from the legacy boolean true or from the default, the result has
\* 'always' and stopHookEnabled still false.
C10_HideWhileRunningRequiresStopHook ==
    Migrated =>
        LET cci == merged.claudeCodeIntegration.obj
            pcci == Get(P, "claudeCodeIntegration")
        IN  /\ ~(cci.enhancedInputAutoPopup = Str("hideWhileRunning")
                    /\ cci.stopHookEnabled = Bool(FALSE))
            /\ (/\ Prop(pcci, "stopHookEnabled") = Bool(FALSE)
                /\ Prop(pcci, "enhancedInputAutoPopup")
                       \in {Str("hideWhileRunning"), Bool(TRUE), Undefined})
               => /\ cci.enhancedInputAutoPopup = Str("always")
                  /\ cci.stopHookEnabled = Bool(FALSE)

\* C10 witness: stopHookEnabled = false was persisted without an
\* enhancedInputAutoPopup, so that 'hideWhileRunning' came from the default
C10_Witness ==
    /\ Migrated
    /\ Get(P, "claudeCodeIntegration") = Obj([stopHookEnabled |-> Bool(FALSE)])
    /\ merged.claudeCodeIntegration.obj.enhancedInputAutoPopup = Str("always")


----------------------------------------------------------------------------
(* Claims about the store and its storage cycles                            *)

\* The value stored under 'enso-settings'
DiskEntry == Prop(disk, StoreName)

\* C3: the load-time merge never overwrites a value that a setter has
\* written.  Before the stored value arrives only a setter changes the state,
\* so every field that then differs from the initial state was written by a
\* setter, and the claim is that it keeps its value through the merge.
C3_MergeKeepsSetterValues ==
    [][(hpc = "reply" /\ hpc' = "ready")
           => \A k \in DOMAIN state :
                  state[k] # getInitialState[k] => state'[k] = state[k]]_vars

\* C4: the read-modify-write cycles run one at a time: between the read and
\* the write of a cycle no other cycle writes the settings file, so no cycle
\* writes back a copy that is stale.
C4_CyclesRunOneAtATime ==
    \A i \in DOMAIN cycles : ~cycles[i].stale

\* C5: once a write of a setter has completed last, the value under
\* 'enso-settings' is the value of that write, and it is the projection of
\* one state the store has held: never a mix of two states.
C5_DiskIsOneSnapshot ==
    lastWrite.kind = "setItem"
        => /\ DiskEntry = lastWrite.value
           /\ \E s \in held : DiskEntry = StorageValue(s)

\* Writes of two setters have completed out of order: the one that completed
\* last is not the one of the current state
C5_Witness ==
    /\ lastWrite.kind = "setItem"
    /\ cycles = <<>>
    /\ hpc = "ready"
    /\ lastWrite.value # StorageValue(state)
    /\ Cardinality(held) > 2


\* The ids of the entries of the agent table that are the default
DefaultAgents ==
    {id \in DOMAIN state.agentSettings.obj :
         Prop(state.agentSettings.obj[id], "isDefault") = Bool(TRUE)}

\* C6: from the default agent table, after any sequence of setAgentEnabled,
\* setAgentDefault, setAgentCustomConfig, addCustomAgent and
\* removeCustomAgent at most one entry has isDefault = true, and a
\* setAgentDefault(id) of an id of the table leaves exactly id the default.
C6_AtMostOneDefaultAgent ==
    [][/\ Cardinality(DefaultAgents') <= 1
       /\ \A agentId \in DOMAIN state.agentSettings.obj :
              state'.agentSettings = defaultOnly(state.agentSettings, agentId)
                  => /\ DefaultAgents' = {agentId}
                     /\ \A id \in DOMAIN state'.agentSettings.obj \ {agentId} :
                            Prop(state'.agentSettings.obj[id], "isDefault")
                                = Bool(FALSE)]_vars

\* A custom agent that was the default has been removed, and the first
\* enabled entry has taken its place
C6_Witness ==
    /\ Len(cycles) >= 3
    /\ "custom1" \notin DOMAIN state.agentSettings.obj
    /\ \E i \in DOMAIN cycles :
           /\ cycles[i].kind = "setItem"
           /\ Prop(Prop(Prop(Prop(cycles[i].value, "state"), "agentSettings"),
                        "custom1"), "isDefault") = Bool(TRUE)
    /\ DefaultAgents # {}


----------------------------------------------------------------------------
(* Claims about the fields of the migrated snapshot                         *)

\* The legacy field that feeds the field f of xtermKeybindings from the
\* agent keybindings
AgentLegacyName ==
    [newTab |-> "newSession", closeTab |-> "closeSession",
     nextTab |-> "nextSession", prevTab |-> "prevSession"]

\* The value C11 expects for the field f of xtermKeybindings when P has no
\* xtermKeybindings
ExpectedXtermKeybinding(f) ==
    LET fromAgent ==
            IF f \in DOMAIN AgentLegacyName
            THEN Prop(Get(P, "agentKeybindings"), AgentLegacyName[f])
            ELSE Undefined
        fromTerminal ==
            IF f \in {"newTab", "closeTab", "nextTab", "prevTab", "clear"}
            THEN Prop(Get(P, "terminalKeybindings"), f)
            ELSE Undefined
        fromPane ==
            IF f \in {"split", "merge"}
            THEN Prop(Get(P, "terminalPaneKeybindings"), f)
            ELSE Undefined
    IN  IF ~IsUndefined(fromAgent) THEN fromAgent
        ELSE IF ~IsUndefined(fromTerminal) THEN fromTerminal
        ELSE IF ~IsUndefined(fromPane) THEN fromPane
        ELSE defaultXtermKeybindings.obj[f]

\* C11: when P has no xtermKeybindings, every field of the migrated
\* xtermKeybindings is the legacy value when one is defined (the agent
\* keybinding before the terminal keybinding) and the default otherwise; when
\* P has xtermKeybindings the result is the defaults overlaid with them,
\* whatever the legacy fields hold.
C11_LegacyKeybindingsMigrated ==
    Migrated /\ IsObj(persistedState) =>
        IF Truthy(Get(P, "xtermKeybindings"))
        THEN merged.xtermKeybindings =
                 Obj(Merge(defaultXtermKeybindings.obj,
                           Spread(P.xtermKeybindings)))
        ELSE /\ DOMAIN merged.xtermKeybindings.obj
                    = DOMAIN defaultXtermKeybindings.obj
             /\ \A f \in DOMAIN defaultXtermKeybindings.obj :
                    merged.xtermKeybindings.obj[f] = ExpectedXtermKeybinding(f)

\* Terminal and agent keybindings both define newTab, and the agent's wins
C11_Witness ==
    /\ Migrated
    /\ ~Truthy(Get(P, "xtermKeybindings"))
    /\ ~IsUndefined(Prop(Get(P, "terminalKeybindings"), "newTab"))
    /\ ~IsUndefined(Prop(Get(P, "agentKeybindings"), "newSession"))
    /\ merged.xtermKeybindings.obj.newTab = P.agentKeybindings.obj.newSession
    /\ merged.xtermKeybindings.obj.newTab # P.terminalKeybindings.obj.newTab


----------------------------------------------------------------------------
(* Claims about the stored value                                            *)

\* The state stored under 'enso-settings' has none of the legacy fields
NoLegacyOnDisk ==
    \A f \in legacyFields : f \notin DOMAIN Spread(Prop(DiskEntry, "state"))

\* C12: once cleanupLegacyFields has written, the state stored under
\* 'enso-settings' has none of the legacy fields, and the write that follows
\* does not put any of them back.
C12_LegacyFieldsStayRemoved ==
    [][(lastWrite.kind = "cleanup" \/ lastWrite'.kind = "cleanup")
           => NoLegacyOnDisk']_vars


----------------------------------------------------------------------------
(* Claims about clampNumber                                                 *)

\* The strings of the model that denote a number
NumericStrings == {"0.5", "7", "600"}

\* C13: clampNumber returns the fallback for every value that is neither a
\* finite number nor a string that denotes a number: null, undefined,
\* booleans, objects, NaN, the infinities, the empty string and strings of
\* white space.
C13_ClampFallsBackOnNonNumbers ==
    (clampCall.pc = "done"
        /\ ~IsNum(clampCall.value)
        /\ ~(IsStr(clampCall.value) /\ clampCall.value.str \in NumericStrings))
        => clampCall.result = clampCall.fallback


\* The bounds of the numeric background fields
BackgroundRanges ==
    [backgroundOpacity |-> [min |-> 0, max |-> Fixed(1)],
     backgroundBlur |-> [min |-> 0, max |-> Fixed(20)],
     backgroundBrightness |-> [min |-> 0, max |-> Fixed(2)],
     backgroundSaturation |-> [min |-> 0, max |-> Fixed(2)],
     backgroundRandomInterval |-> [min |-> Fixed(5), max |-> Fixed(86400)]]

\* C14: every numeric background field of the migrated snapshot is a number
\* within its bounds; a persisted number inside them is kept, one below them
\* becomes the lower bound and one above them the upper bound.
C14_BackgroundNumbersClamped ==
    Migrated =>
        \A f \in DOMAIN BackgroundRanges :
            LET range == BackgroundRanges[f]
                p == Get(P, f)
            IN  /\ IsNum(merged[f])
                /\ merged[f].num >= range.min
                /\ merged[f].num <= range.max
                /\ IsNum(p) =>
                       merged[f] =
                           IF p.num < range.min THEN Num(range.min)
                           ELSE IF p.num > range.max THEN Num(range.max)
                           ELSE p

\* One persisted number above its range and one below have been clamped
C14_Witness ==
    /\ Migrated
    /\ Get(P, "backgroundOpacity") = Num(Fixed(5))
    /\ merged.backgroundOpacity = Num(Fixed(1))
    /\ Get(P, "backgroundSaturation") = Num(0 - Fixed(1))
    /\ merged.backgroundSaturation = Num(0)


\* C15: terminalRenderer of the migrated snapshot is never 'canvas': a
\* persisted 'canvas' gives 'webgl', any other persisted value is kept, and
\* an absent one gives the default.
C15_CanvasRendererMigrated ==
    Migrated =>
        /\ merged.terminalRenderer # Str("canvas")
        /\ merged.terminalRenderer =
               IF "terminalRenderer" \notin DOMAIN P
               THEN getInitialState.terminalRenderer
               ELSE IF P.terminalRenderer = Str("canvas") THEN Str("webgl")
               ELSE P.terminalRenderer

\* A persisted 'canvas' has been migrated
C15_Witness ==
    /\ Migrated
    /\ Get(P, "terminalRenderer") = Str("canvas")
    /\ merged.terminalRenderer = Str("webgl")


\* The setters that make a host call
HostSetters ==
    {"setLanguage", "setProxySettings", "setAutoUpdateEnabled",
     "setLoggingEnabled", "setLogLevel", "setWebInspectorEnabled"}

\* A host call made by a setter has just settled with a failure
SetterCallFailed ==
    /\ Len(hostCalls') < Len(hostCalls)
    /\ hostEvent'.from \in HostSetters
    /\ hostEvent'.outcome # "ok"

\* C16: for every setter that makes a host call, a failure of
\* the host call leaves the in-memory state as the setter wrote it (no
\* rollback) and does not reach the caller of the setter.
C16_HostFailureKeepsState ==
    [][SetterCallFailed =>
          /\ state' = state
          /\ hostEvent'.reaches # "promise"]_vars


\* C17: a persistence I/O failure never changes the in-memory snapshot and
\* never blocks the store.  When the read of the hydration rejects, the state
\* is left as it is, which is what a hydration that finds nothing persisted
\* gives, and the setters stay enabled; when the read or the write of a cycle
\* rejects, the state keeps the value the setter wrote, the file is unchanged
\* and the cycle is gone, not started again.
C17_IOFailureKeepsState ==
    [][/\ GetItemRejects =>
             /\ state' = state
             /\ state' = migrateSettings(Undefined, state)
             /\ cycles' = cycles
       /\ \A i \in DOMAIN cycles :
             CycleRejects(i) =>
                 /\ state' = state
                 /\ disk' = disk
                 /\ cycles' = RemoveAt(cycles, i)
       /\ (hpc' = "failed" /\ SetItemsInFlight' < MaxFailWrites) =>
             \A path \in WorktreePaths :
                 (ENABLED setDefaultWorktreePath(path))']_vars

\* The read of the hydration rejected with a saved file on the disk, a setter
\* ran, and its cycle ended without a write: the state has the setter's value
\* (and the default font size), the file is as it was
C17_Witness ==
    /\ hpc = "failed"
    /\ state = With(getInitialState, "defaultWorktreePath", Str("/w"))
    /\ cycles = <<>>
    /\ lastWrite.kind = "none"
    /\ disk # Null

\* The state stored under 'enso-settings' has no _backgroundRefreshKey
NoRefreshKeyOnDisk ==
    "_backgroundRefreshKey" \notin DOMAIN Spread(Prop(DiskEntry, "state"))

\* The setItem that a step started carries the whole new state but the
\* refresh counter, as JSON
WriteCarriesSnapshot ==
    Len(cycles') > Len(cycles) /\ cycles'[Len(cycles')].kind = "setItem" =>
        cycles'[Len(cycles')].value =
            JsonRoundTrip(Obj([state |->
                                   Obj([k \in DOMAIN state'
                                            \ {"_backgroundRefreshKey"} |->
                                            state'[k]]),
                               version |-> Num(0)]))

\* A step that changes the refresh counter adds exactly one to it and
\* changes no other field
RefreshAddsOne ==
    state'._backgroundRefreshKey # state._backgroundRefreshKey =>
        /\ state'._backgroundRefreshKey =
               Num(state._backgroundRefreshKey.num + Fixed(1))
        /\ \A k \in DOMAIN state \cup DOMAIN state' :
               k # "_backgroundRefreshKey" =>
                   k \in DOMAIN state /\ k \in DOMAIN state'
                   /\ state'[k] = state[k]

\* C18: every write the store issues carries the full current snapshot
\* except the transient _backgroundRefreshKey: the state stored under
\* 'enso-settings' never contains _backgroundRefreshKey, after any sequence
\* of setters, and triggerBackgroundRefresh increases the counter by exactly
\* one and leaves every other field unchanged.
C18_RefreshKeyNeverStored ==
    /\ []NoRefreshKeyOnDisk
    /\ [][WriteCarriesSnapshot /\ RefreshAddsOne]_vars

\* triggerBackgroundRefresh ran and a setter's write that followed
\* completed: the counter is 1 in memory and the stored state is without it
C18_Witness ==
    /\ state._backgroundRefreshKey = Num(Fixed(1))
    /\ lastWrite.kind = "setItem"
    /\ IsObj(Prop(DiskEntry, "state"))
    /\ NoRefreshKeyOnDisk

\* The domains that have a partial-update setter
PartialDomains ==
    {"editorSettings", "claudeCodeIntegration", "hapiSettings",
     "proxySettings", "commitMessageGenerator", "codeReview",
     "branchNameGenerator"}

\* The step from s to t is the update of domain d with the argument settings:
\* the fields the argument names have its values, the fields of the domain
\* it omits keep their values, and every other field of the state is as it was
IsPartialUpdate(s, t, d, settings) ==
    /\ DOMAIN t = DOMAIN s
    /\ \A k \in DOMAIN s \ {d} : t[k] = s[k]
    /\ IsObj(t[d])
    /\ DOMAIN t[d].obj = DOMAIN s[d].obj \cup DOMAIN settings
    /\ \A f \in DOMAIN settings : t[d].obj[f] = settings[f]
    /\ \A f \in DOMAIN s[d].obj \ DOMAIN settings : t[d].obj[f] = s[d].obj[f]

\* C19: each partial-update setter replaces only its targeted fields and
\* re-runs no migration: a step in which a setter has set the state is the
\* update of one domain with one argument, where the fields of the domain
\* that the argument omits keep their previous values and every other domain
\* of the state is unchanged.
C19_PartialUpdateFrame ==
    [][Len(cycles') > Len(cycles) /\ hpc' = hpc =>
          \E d \in PartialDomains : \E settings \in PartialUpdates(d) :
              IsPartialUpdate(state, state', d, settings)]_vars

\* setClaudeCodeIntegration({ stopHookEnabled: false }) and
\* setEditorSettings({ fontSize: 15 }) ran on the initial state: the popup
\* mode that the migration would repair is as it was, and so is tabSize
C19_Witness ==
    /\ state.claudeCodeIntegration.obj.stopHookEnabled = Bool(FALSE)
    /\ state.claudeCodeIntegration.obj.enhancedInputAutoPopup =
           Str("hideWhileRunning")
    /\ state.editorSettings.obj.fontSize = Num(Fixed(15))
    /\ state.editorSettings.obj.tabSize = Num(Fixed(2))
    /\ Len(cycles) = 2

\* C20: the one-shot localStorage migration deletes the legacy todo-boards
\* key only after the forward call to the task database has succeeded: the
\* key is removed only in a step that follows a resolved call; when the key
\* is absent nothing is called; and when the forward call fails the key
\* stays in localStorage and no error escapes: the function returns, having
\* caught and logged the failure.
C20_KeyDeletedOnSuccessOnly ==
    [][/\ (todo.stored # Null /\ todo'.stored = Null) =>
             todo.handler = "resolved" /\ todo.calls = 1
       /\ (todo.stored = Null /\ todo'.pc = "done") =>
             todo'.calls = 0 /\ todo'.handler = "idle"
       /\ (todo.handler = "rejected" /\ todo'.pc = "done") =>
             /\ todo'.stored = todo.stored /\ todo'.stored # Null
             /\ todo'.console = <<"error">>]_vars

\* A forward call failed inside its transaction and the function returned:
\* the key is still there and the database has none of its tasks
C20_Witness ==
    /\ todo.pc = "done"
    /\ todo.handler = "rejected"
    /\ todo.stored = Str("{r1:{tasks:[t1,t2]}}")
    /\ todo.db = "open"
    /\ todo.rows = {}
    /\ todo.console = <<"error">>

\* C21: in every Ready state of the settings store, after the load of any
\* persisted state and any sequence of setter calls, logRetentionDays is an
\* integer between 1 and 30 inclusive.
C21_RetentionDaysInRange ==
    hpc = "ready" =>
        /\ IsNum(state.logRetentionDays)
        /\ state.logRetentionDays.num % 100 = 0
        /\ Fixed(1) <= state.logRetentionDays.num
        /\ state.logRetentionDays.num <= Fixed(30)

\* C22: the rule 'hideWhileRunning requires stopHookEnabled' holds in every
\* Ready state of the store, not only right after the load: after any
\* sequence of setClaudeCodeIntegration calls the state never has
\* enhancedInputAutoPopup = 'hideWhileRunning' while stopHookEnabled is false.
C22_StopHookRuleInEveryReadyState ==
    hpc = "ready" =>
        ~(/\ state.claudeCodeIntegration.obj.enhancedInputAutoPopup =
                 Str("hideWhileRunning")
          /\ state.claudeCodeIntegration.obj.stopHookEnabled = Bool(FALSE))

\* The ids of the enabled entries of an agent table, in the order of the table
EnabledAgents(agentSettings) ==
    SelectSeq(agentSettings.keys,
              LAMBDA k : Prop(agentSettings.obj[k], "enabled") = Bool(TRUE))

\* The ids of the custom agents of the state s
CustomIds(s) == {s.customAgents.arr[i].obj.id.str : i \in DOMAIN s.customAgents.arr}

\* C23: removeCustomAgent(id) removes id from both customAgents and
\* agentSettings; when the removed agent was the default, the first remaining
\* agent with enabled = true becomes the default, and when no remaining agent
\* is enabled no agent is default; when the removed agent was not the
\* default, the isDefault flags of all other agents are unchanged.
C23_RemoveCustomAgent ==
    [][\A id \in RemovedAgentIds :
          (/\ id \in DOMAIN state.agentSettings.obj
           /\ id \notin DOMAIN state'.agentSettings.obj) =>
              LET old == state.agentSettings
                  new == state'.agentSettings
                  enabled == EnabledAgents(new)
              IN  /\ id \notin CustomIds(state')
                  /\ CustomIds(state') = CustomIds(state) \ {id}
                  /\ new.keys = SelectSeq(old.keys, LAMBDA k : k # id)
                  /\ IF Prop(old.obj[id], "isDefault") = Bool(TRUE)
                     THEN IF enabled # <<>>
                          THEN DefaultAgents' = {Head(enabled)}
                          ELSE DefaultAgents' = {}
                     ELSE \A k \in DOMAIN new.obj :
                              Prop(new.obj[k], "isDefault")
                                  = Prop(old.obj[k], "isDefault")]_vars

\* custom1, the default, was removed from a table in which only custom2 was
\* enabled besides: custom2 is the default now
C23_Witness ==
    /\ hpc = "ready"
    /\ "custom1" \notin DOMAIN state.agentSettings.obj
    /\ \E s \in held :
           /\ "custom1" \in DOMAIN s.agentSettings.obj
           /\ s.agentSettings.obj.custom1.obj.isDefault = Bool(TRUE)
           /\ s.agentSettings.obj.claude.obj.enabled = Bool(FALSE)
    /\ DefaultAgents = {"custom2"}

\* What the statement of a resolved addTask, updateTask, deleteTask or moveTask
\* left in the rows, as far as no later resolved call overwrote it
EffectHolds(op, rows) ==
    CASE op = "addTask" -> "t4" \in DOMAIN rows
      [] op = "deleteTask" -> "t2" \notin DOMAIN rows
      [] op = "updateTask" ->
             "t1" \in DOMAIN rows /\ rows["t1"].status \in {"done", "doing"}
      [] op = "moveTask" ->
             "t1" \in DOMAIN rows /\ rows["t1"].status \in {"done", "doing"}

\* C24: reorderTasks and migrateFromLocalStorage are atomic and isolated on
\* the shared connection under any interleaving of the IPC handlers: a
\* rejected one leaves the rows as at its BEGIN, a call of addTask,
\* updateTask, deleteTask or moveTask that resolved is never undone by their
\* ROLLBACK, and no operation fails because its BEGIN was issued while a
\* transaction was open.
C24_TransactionsIsolated ==
    [][/\ \A op \in TxnOps : tdb'.ops[op].why # "nested"
       /\ \A op \in TxnOps :
             (tdb.ops[op].pc = "begun" /\ tdb'.ops[op].pc = "rejected") =>
                 \A single \in SingleOps :
                     (tdb.ops[single].pc = "resolved"
                      /\ EffectHolds(single, tdb.rows))
                         => EffectHolds(single, tdb'.rows)]_vars

\* C25: no TodoService operation invoked through an IPC handler starts
\* before initialize() has settled, and when the initialization failed the
\* handlers do not hang: a call that waits can run, and runs to a result of
\* its own.
C25_HandlersWaitForInitialize ==
    \A op \in TxnOps \cup SingleOps :
        /\ tdb.ops[op].pc \in {"begun", "resolved", "rejected"}
               => tdb.init # "running"
        /\ (tdb.init # "running" /\ tdb.ops[op].pc = "waiting")
               => ENABLED (RunSingle(op) \/ BeginTransaction(op))

\* The initialization failed, once at the index with the table created and
\* once at the table: calls have run since, to a result or to an error
C25_Witness ==
    /\ tdb.init = "failed"
    /\ \/ /\ tdb.db = "open"
          /\ tdb.ops["addTask"].pc = "resolved"
          /\ tdb.ops["reorderTasks"].pc = "resolved"
       \/ /\ tdb.db = "notable"
          /\ tdb.ops["addTask"].pc = "rejected"
          /\ tdb.ops["reorderTasks"].pc = "rejected"

\* C26: a task returned by addTask of the todo store stays in the in-memory
\* list of its repo until deleteTask removes it, also when a loadTasks of the
\* same repo resolves afterwards.
C26_AddedTaskStays ==
    (tstore.returned \ tstore.deleted) \subseteq IdsOf(tstore.tasks)

\* C27: in the in-memory list the tasks of one status have pairwise distinct
\* order values after any sequence of addTask, updateTask, deleteTask,
\* moveTask with the last order of the target column + 1, and reorderTasks
\* with a permutation of the ids of the column.
C27_DistinctOrdersInColumn ==
    \A i, j \in DOMAIN tstore.tasks :
        (i # j /\ tstore.tasks[i].status = tstore.tasks[j].status)
            => tstore.tasks[i].order # tstore.tasks[j].order

\* The task with this id in a list
TaskOf(tasks, id) == CHOOSE t \in {tasks[i] : i \in DOMAIN tasks} : t.id = id

\* C28: while a drag is in progress only the pending move changes and no
\* moveTask or reorderTasks is issued; a cancelled drag and a drag that ends
\* without a drop target leave the tasks unchanged; every drag end and cancel
\* clears the pending move, the active id and the drag-start snapshot; a drop
\* after a cross-column move issues exactly one moveTask, that gives the task
\* the target status and an order greater than that of every other task of
\* the target column.
C28_DragCommitsOnDrop ==
    [][/\ kanban'.event = "over" =>
             /\ kanban'.tasks = kanban.tasks
             /\ kanban'.issued = kanban.issued
             /\ kanban'.activeId = kanban.activeId
             /\ kanban'.snapshot = kanban.snapshot
       /\ (kanban'.event = "cancel"
             \/ (kanban'.event = "end" /\ kanban'.over = NoId)) =>
             /\ kanban'.tasks = kanban.tasks
             /\ kanban'.issued = kanban.issued
       /\ kanban'.event \in {"end", "cancel"} =>
             /\ kanban'.pendingMove = NoMove
             /\ kanban'.activeId = NoId
             /\ kanban'.snapshot = <<>>
       /\ (kanban'.event = "end" /\ kanban'.over # NoId
             /\ kanban.pendingMove # NoMove) =>
             LET move == kanban.pendingMove
                 moved == TaskOf(kanban'.tasks, move.taskId)
             IN  /\ Len(kanban'.issued) = Len(kanban.issued) + 1
                 /\ kanban'.issued[Len(kanban'.issued)].op = "moveTask"
                 /\ moved.status = move.toStatus
                 /\ \A i \in DOMAIN kanban'.tasks :
                        (kanban'.tasks[i].status = move.toStatus
                         /\ kanban'.tasks[i].id # move.taskId)
                            => kanban'.tasks[i].order < moved.order
      ]_vars

\* t1 was dragged from todo over the column of t3 and dropped there: it is
\* the last task of that column now
C28_Witness ==
    /\ kanban.event = "end"
    /\ kanban.over # NoId
    /\ Len(kanban.issued) = 1
    /\ kanban.issued[1].op = "moveTask"
    /\ kanban.issued[1].id = "t1"
    /\ kanban.issued[1].order = 3
    /\ TaskOf(kanban.tasks, "t1").status = "done"

\* C29: every open-path request is delivered to the renderer exactly once:
\* none is sent twice, a request not yet sent is the one held in
\* pendingOpenPath, and once the window has loaded every request received was
\* sent and pendingOpenPath is cleared.
C29_OpenPathDeliveredOnce ==
    LET Sent == {opener.sent[i] : i \in DOMAIN opener.sent}
        Received == {opener.received[i].path : i \in DOMAIN opener.received}
    IN  /\ Cardinality(Sent) = Len(opener.sent)
        /\ Received \ Sent \subseteq {opener.pendingOpenPath}
        /\ opener.phase = "loaded" =>
               (Received = Sent /\ opener.pendingOpenPath = NoPath)

\* C30: once the exit event of a terminal has been handled and the
\* createTerminal call that created it has resolved, the terminal store holds
\* no session with its id and activeSessionId does not refer to it, whichever
\* of the two came first.
C30_ExitedTerminalHasNoSession ==
    \A id \in term.exited \cap term.resolved :
        /\ \A i \in DOMAIN term.sessions : term.sessions[i] # id
        /\ term.activeSessionId # id
====
